---- MODULE Spec2Model ----
(***************************************************************************)
(* A state-machine model of the game-state and turn-resolution core of     *)
(* src/roguelike-dev.js: the entity store, location transitions, the map   *)
(* and light maps, combat, items, monster AI, descent and save/load.       *)
(*                                                                         *)
(* rot.js is a library outside the repository.  Its three services are     *)
(* modelled by what the program relies on:                                 *)
(*   ROT.RNG   a deterministic generator whose whole state is one number;  *)
(*   ROT.Map.Digger   picks one of a few small room-and-corridor layouts   *)
(*             from one random draw;                                       *)
(*   ROT.FOV.PreciseShadowcasting   a tile is lit when every tile on the   *)
(*             straight line to it lets light pass.                        *)
(* JavaScript objects are records whose DOMAIN is the set of own           *)
(* properties, so `x.f !== undefined` is `"f" \in DOMAIN x`.               *)
(***************************************************************************)
EXTENDS Integers, Sequences, FiniteSets, TLC

VARIABLES
    entities,            \* the Map id -> entity (iteration order = ascending id)
    player,              \* id of the entity the global `player` refers to
    createEntity_id,     \* createEntity.id, the last id handed out
    tileMap,             \* [_values: <<x,y>> -> tile, dungeonLevel]
    messages,            \* sequence of <<text, className>>
    rngState,            \* ROT.RNG's internal state
    overlay,             \* which overlays are visible, and the targeting callback
    DEBUG_ALL_EXPLORED,
    storage,             \* window.localStorage[STORAGE_KEY]: NoSave or the JSON record
    fault,               \* the exception that ended the last handler, or NoFault
    last,                \* history: the input just handled and what it did
    snapshot,            \* history: the game state when storage was last written
    confusion,           \* history: per confused entity, phases and recoveries since
    inputsLeft           \* the number of inputs the run may still handle

vars == <<entities, player, createEntity_id, tileMap, messages, rngState, overlay,
          DEBUG_ALL_EXPLORED, storage, fault, last, snapshot, confusion, inputsLeft>>

(***************************************************************************)
(* Bounds of the model                                                     *)
(***************************************************************************)
WIDTH == 7
HEIGHT == 5
RngMod == 8
MaxSteps == 4
DelveSteps == 3
ConfusionSteps == 12
ModesSteps == 3
UnitsSteps == 3
MaxSwapSlot == 3

(***************************************************************************)
(* Program constants                                                       *)
(***************************************************************************)
EQUIP_MAIN_HAND == 0
EQUIP_OFF_HAND == 1
MAX_MESSAGE_LINES == 100
INVENTORY_CAPACITY == 26
FOV_RADIUS == 10
NULL == 0
NoFault == "none"
NoSave == <<>>
NOWHERE == [x |-> -1, y |-> -1]
NoProps == [k \in {} |-> NULL]

Abs(n) == IF n < 0 THEN -n ELSE n
Max(a, b) == IF a >= b THEN a ELSE b
Min(a, b) == IF a <= b THEN a ELSE b
clamp(v, lo, hi) == IF v < lo THEN lo ELSE IF v > hi THEN hi ELSE v

\* `let v = value; Body(v)`: the value is computed once and named
With(value, Body(_)) == Body(value)

(***************************************************************************)
(* ROT.RNG.  getUniform advances the state and returns state/RngMod.       *)
(***************************************************************************)
RngNext(s) == (5 * s + 3) % RngMod

\* randint(lo, hi) = floor(getUniform() * (hi - lo + 1)) + lo, on the advanced state
randintValue(s, lo, hi) ==
    LET mn == Min(lo, hi)
        mx == Max(lo, hi)
    IN  mn + ((RngNext(s) * (mx - mn + 1)) \div RngMod)

RECURSIVE SumWeights(_)
SumWeights(data) ==
    IF data = <<>> THEN 0 ELSE data[1][2] + SumWeights(Tail(data))

RECURSIVE PickWeighted(_, _, _, _)
PickWeighted(data, i, part, scaled) ==
    \* random < part, with random = (s / RngMod) * total and scaled = s * total
    IF i = Len(data) THEN data[i][1]
    ELSE IF scaled < (part + data[i][2]) * RngMod THEN data[i][1]
    ELSE PickWeighted(data, i + 1, part + data[i][2], scaled)

\* ROT.RNG.getWeightedValue over the keys of `data` in insertion order
getWeightedValue(s, data) ==
    PickWeighted(data, 1, 0, RngNext(s) * SumWeights(data))

(***************************************************************************)
(* evaluateStepFunction: the value of the last row whose threshold is <= x *)
(***************************************************************************)
evaluateStepFunction(table, x) ==
    LET candidates == SelectSeq(table, LAMBDA xy : x >= xy[1])
    IN  IF Len(candidates) > 0 THEN candidates[Len(candidates)][2] ELSE 0

(***************************************************************************)
(* Type-derived entity properties                                          *)
(***************************************************************************)
ENTITY_PROPERTIES ==
    ("player" :> [blocks |-> TRUE, render_order |-> 5]) @@
    ("stairs" :> [stairs |-> TRUE, render_order |-> 1]) @@
    ("troll" :> [blocks |-> TRUE, render_order |-> 3, xp_award |-> 100]) @@
    ("orc" :> [blocks |-> TRUE, render_order |-> 3, xp_award |-> 35]) @@
    ("corpse" :> [blocks |-> FALSE, render_order |-> 0]) @@
    ("healing potion" :> [item |-> TRUE, render_order |-> 2]) @@
    ("lightning scroll" :> [item |-> TRUE, render_order |-> 2]) @@
    ("fireball scroll" :> [item |-> TRUE, render_order |-> 2]) @@
    ("confusion scroll" :> [item |-> TRUE, render_order |-> 2]) @@
    ("dagger" :> [item |-> TRUE, equipment_slot |-> EQUIP_MAIN_HAND,
                  render_order |-> 2, bonus_power |-> 0]) @@
    ("sword" :> [item |-> TRUE, equipment_slot |-> EQUIP_MAIN_HAND,
                 render_order |-> 2, bonus_power |-> 3]) @@
    ("towel" :> [item |-> TRUE, equipment_slot |-> EQUIP_OFF_HAND,
                 render_order |-> 2, bonus_defense |-> 0]) @@
    ("shield" :> [item |-> TRUE, equipment_slot |-> EQUIP_OFF_HAND,
                  render_order |-> 2, bonus_defense |-> 1])

\* the forwarded getters: ENTITY_PROPERTIES[this.type][property]
HasProp(e, property) == property \in DOMAIN ENTITY_PROPERTIES[e.type]
PropOf(e, property) == ENTITY_PROPERTIES[e.type][property]
Truthy(e, property) == HasProp(e, property) /\ PropOf(e, property)

\* calculateEquipmentBonus that looks at the main hand only
calculateEquipmentBonusMainHandOnly(ents, e, field) ==
    IF "equipment" \notin DOMAIN e THEN 0
    ELSE IF e.equipment[EQUIP_MAIN_HAND] = NULL THEN 0
    ELSE IF HasProp(ents[e.equipment[EQUIP_MAIN_HAND]], field)
         THEN PropOf(ents[e.equipment[EQUIP_MAIN_HAND]], field) ELSE 0

calculateEquipmentBonus(ents, e, field) ==
    IF "equipment" \notin DOMAIN e THEN 0
    ELSE LET eq == e.equipment
             RECURSIVE Sum(_)
             Sum(slot) ==
                 IF slot >= INVENTORY_CAPACITY THEN 0
                 ELSE (IF eq[slot] = NULL THEN 0
                       ELSE IF HasProp(ents[eq[slot]], field)
                            THEN PropOf(ents[eq[slot]], field) ELSE 0)
                      + Sum(slot + 1)
         IN  Sum(0)

effective_max_hp(ents, e) == e.base_max_hp + calculateEquipmentBonus(ents, e, "bonus_max_hp")
effective_power(ents, e) == e.base_power + calculateEquipmentBonus(ents, e, "bonus_power")
effective_defense(ents, e) == e.base_defense + calculateEquipmentBonus(ents, e, "bonus_defense")

(***************************************************************************)
(* The game state a handler works on, threaded through the operators       *)
(* below.  A throw sets `fault`; the rest of the handler is then skipped.  *)
(***************************************************************************)
Ok(g) == g.fault = NoFault
Throw(g, what) == IF Ok(g) THEN [g EXCEPT !.fault = what] ELSE g

\* print cutting the log at the newest end
printKeepingOldest(g, message, className) ==
    LET pushed == Append(g.messages, <<message, className>>)
    IN  IF ~Ok(g) THEN g
        ELSE [g EXCEPT !.messages =
                IF Len(pushed) > MAX_MESSAGE_LINES
                THEN SubSeq(pushed, 1, MAX_MESSAGE_LINES) ELSE pushed]

print(g, message, className) ==
    LET pushed == Append(g.messages, <<message, className>>)
        n == Len(pushed)
    IN  IF ~Ok(g) THEN g
        ELSE [g EXCEPT !.messages =
                IF n > MAX_MESSAGE_LINES
                THEN SubSeq(pushed, n - MAX_MESSAGE_LINES + 1, n) ELSE pushed]

OnMap(e) == "x" \in DOMAIN e.location

\* ids of the store in iteration order
RECURSIVE IdsFrom(_, _, _)
IdsFrom(ents, i, hi) ==
    IF i > hi THEN <<>>
    ELSE (IF i \in DOMAIN ents THEN <<i>> ELSE <<>>) \o IdsFrom(ents, i + 1, hi)

MaxOf(S) == IF S = {} THEN 0 ELSE CHOOSE m \in S : \A n \in S : n <= m
EntityIds(ents) == IdsFrom(ents, 1, MaxOf(DOMAIN ents))

allEntitiesAt(ents, x, y) ==
    SelectSeq(EntityIds(ents),
              LAMBDA i : OnMap(ents[i]) /\ ents[i].location.x = x /\ ents[i].location.y = y)

\* the id of an item at (x,y), or NULL
itemEntityAt(ents, x, y) ==
    LET found == SelectSeq(allEntitiesAt(ents, x, y), LAMBDA i : Truthy(ents[i], "item"))
    IN  IF found = <<>> THEN NULL ELSE found[1]

blockersAt(ents, x, y) ==
    SelectSeq(allEntitiesAt(ents, x, y), LAMBDA i : Truthy(ents[i], "blocks"))

\* blockingEntityAt throws when this is false
blockingEntityAtOk(ents, x, y) == Len(blockersAt(ents, x, y)) <= 1

\* the id of the blocking entity at (x,y), or NULL
blockingEntityAt(ents, x, y) ==
    LET found == blockersAt(ents, x, y)
    IN  IF found = <<>> THEN NULL ELSE found[1]

(***************************************************************************)
(* moveEntityTo.  The entity may not be in the store yet (createEntity     *)
(* places it before entities.set).                                         *)
(***************************************************************************)
\* leaveSlot without `carrier.inventory[slot] = null`
leaveSlotKeepsEntry(g, entity) == g

leaveSlot(g, entity) ==
    IF "carried_by" \notin DOMAIN entity.location THEN g
    ELSE LET carried_by == entity.location.carried_by
             slot == entity.location.slot
         IN  IF carried_by \notin DOMAIN g.entities
                THEN Throw(g, "TypeError")
             ELSE IF "inventory" \notin DOMAIN g.entities[carried_by]
                THEN Throw(g, "TypeError")
             ELSE IF slot \notin DOMAIN g.entities[carried_by].inventory
                     \/ g.entities[carried_by].inventory[slot] # entity.id
                THEN Throw(g, "invalid: inventory slot does not contain the entity")
             ELSE [g EXCEPT !.entities[carried_by].inventory[slot] = NULL]

setLocation(g, entity, location) ==
    IF entity.id \in DOMAIN g.entities
    THEN [g EXCEPT !.entities[entity.id].location = location]
    ELSE g

enterSlot(g, entity, location) ==
    IF "carried_by" \notin DOMAIN location THEN g
    ELSE LET carried_by == location.carried_by
             slot == location.slot
         IN  IF carried_by \notin DOMAIN g.entities
                THEN Throw(g, "TypeError")
             ELSE IF "inventory" \notin DOMAIN g.entities[carried_by]
                THEN Throw(g, "invalid: moving to an entity without inventory")
             ELSE IF slot \notin DOMAIN g.entities[carried_by].inventory
                     \/ g.entities[carried_by].inventory[slot] # NULL
                THEN Throw(g, "invalid: inventory already contains an item")
             ELSE [g EXCEPT !.entities[carried_by].inventory[slot] = entity.id]

\* moveEntityTo that never clears the slot the entity comes from
moveEntityToWithoutLeaving(g, entity, location) ==
    IF ~Ok(g) THEN g
    ELSE enterSlot(setLocation(g, entity, location), entity, location)

moveEntityTo(g, entity, location) ==
    IF ~Ok(g) THEN g
    ELSE With(leaveSlot(g, entity),
              LAMBDA g1 :
                 IF ~Ok(g1) THEN g1
                 ELSE enterSlot(setLocation(g1, entity, location), entity, location))

createInventoryArray(capacity) == [slot \in 0 .. capacity - 1 |-> NULL]

\* createEntity: the new entity's id is the returned state's `id`
createEntity(g, type, location, properties) ==
    LET id == g.id + 1
        entity == properties @@ [id |-> id, type |-> type, location |-> NOWHERE]
                             @@ [name |-> type]
        placed == [entity EXCEPT !.location = location]
        withHp == IF "base_max_hp" \in DOMAIN placed /\ "hp" \notin DOMAIN placed
                  THEN placed @@ [hp |-> placed.base_max_hp]
                  ELSE placed
    IN  IF ~Ok(g) THEN g
        ELSE With(moveEntityTo([g EXCEPT !.id = id], entity, location),
                  LAMBDA g1 :
                     IF ~Ok(g1) THEN g1
                     ELSE [g1 EXCEPT !.entities = (id :> withHp) @@ @])

(***************************************************************************)
(* The map.  ROT.Map.Digger(WIDTH, HEIGHT) reports every cell of the grid  *)
(* as floor (0) or wall (1); the model's digger draws one of the layouts   *)
(* below.  A room is [x1, y1, x2, y2], as in ROT.Map.Feature.Room.         *)
(***************************************************************************)
Coords == {<<x, y>> : x \in 0 .. WIDTH - 1, y \in 0 .. HEIGHT - 1}

Layouts ==
    << [rooms |-> << [x1 |-> 1, y1 |-> 1, x2 |-> 2, y2 |-> 3],
                     [x1 |-> 4, y1 |-> 1, x2 |-> 5, y2 |-> 3] >>,
        corridors |-> {<<3, 2>>}],
       [rooms |-> << [x1 |-> 4, y1 |-> 1, x2 |-> 5, y2 |-> 2],
                     [x1 |-> 1, y1 |-> 2, x2 |-> 2, y2 |-> 3] >>,
        corridors |-> {<<3, 2>>, <<4, 3>>}] >>

InRoom(room, c) == room.x1 <= c[1] /\ c[1] <= room.x2 /\ room.y1 <= c[2] /\ c[2] <= room.y2

\* Room.getCenter: [Math.round((x1 + x2)/2), Math.round((y1 + y2)/2)]
getCenter(room) ==
    [x |-> (room.x1 + room.x2 + 1) \div 2, y |-> (room.y1 + room.y2 + 1) \div 2]

LayoutFloor(layout) ==
    {c \in Coords : c \in layout.corridors
                    \/ \E i \in 1 .. Len(layout.rooms) : InRoom(layout.rooms[i], c)}

\* digger.create(callback): one tile record per cell
digTiles(layout) ==
    LET floor == LayoutFloor(layout)
    IN  [c \in Coords |-> [walkable |-> c \in floor, wall |-> c \notin floor,
                           explored |-> FALSE]]

\* tileMap.has(x, y) && tileMap.get(x, y).walkable
lightPasses(tiles, c) == c \in DOMAIN tiles /\ tiles[c].walkable

(***************************************************************************)
(* ROT.FOV.PreciseShadowcasting(lightPasses).compute(x, y, R, callback):   *)
(* the centre is always reported with visibility 1; nothing else is when   *)
(* the centre itself blocks light.  The set below is the set of cells      *)
(* reported with visibility > 0.                                           *)
(***************************************************************************)
Between(c, t) ==
    LET dx == t[1] - c[1]
        dy == t[2] - c[2]
    IN  {p \in (Min(c[1], t[1]) .. Max(c[1], t[1])) \X (Min(c[2], t[2]) .. Max(c[2], t[2])) :
            /\ p # c /\ p # t
            /\ 2 * Abs((p[1] - c[1]) * dy - (p[2] - c[2]) * dx) <= Max(Abs(dx), Abs(dy))}

fovCompute(tiles, c) ==
    {c} \cup
    IF ~lightPasses(tiles, c) THEN {}
    ELSE {t \in DOMAIN tiles :
            /\ Max(Abs(t[1] - c[1]), Abs(t[2] - c[2])) <= FOV_RADIUS
            /\ \A p \in Between(c, t) : lightPasses(tiles, p)}

\* the light map as the set of coordinates whose visibility is > 0
lightMapOf(g, center) == fovCompute(g.tileMap._values, <<center.x, center.y>>)

\* computeLightMap writing explored = (visibility > 0) on every tile
computeLightMapForgetting(g, center) ==
    LET lit == lightMapOf(g, center)
    IN  [g EXCEPT !.tileMap._values =
            [c \in DOMAIN @ |-> [@[c] EXCEPT !.explored = c \in lit]]]

\* computeLightMap's side effect: every lit tile of the map becomes explored
computeLightMap(g, center) ==
    LET lit == lightMapOf(g, center)
    IN  [g EXCEPT !.tileMap._values =
            [c \in DOMAIN @ |-> IF c \in lit THEN [@[c] EXCEPT !.explored = TRUE] ELSE @[c]]]

Lit(lightMap, location) == <<location.x, location.y>> \in lightMap

(***************************************************************************)
(* populateRoom and createTileMap                                          *)
(***************************************************************************)
movesToPlayer == [behavior |-> "move_to_player"]

monsterProps(type) ==
    IF type = "orc"
    THEN [base_max_hp |-> 20, base_defense |-> 0, base_power |-> 4, ai |-> movesToPlayer]
    ELSE [base_max_hp |-> 30, base_defense |-> 2, base_power |-> 8, ai |-> movesToPlayer]

monsterChances(dungeonLevel) ==
    << <<"orc", 80>>,
       <<"troll", evaluateStepFunction(<< <<3, 15>>, <<5, 30>>, <<7, 60>> >>, dungeonLevel)>> >>

itemChances(dungeonLevel) ==
    << <<"healing potion", 70>>,
       <<"lightning scroll", evaluateStepFunction(<< <<4, 25>> >>, dungeonLevel)>>,
       <<"fireball scroll", evaluateStepFunction(<< <<6, 25>> >>, dungeonLevel)>>,
       <<"confusion scroll", evaluateStepFunction(<< <<2, 10>> >>, dungeonLevel)>>,
       <<"sword", evaluateStepFunction(<< <<4, 5>> >>, dungeonLevel)>>,
       <<"shield", evaluateStepFunction(<< <<8, 15>> >>, dungeonLevel)>> >>

\* one draw of randint, as a state transformer; the value is randintValue(g.rng, ..)
drawn(g) == [g EXCEPT !.rng = RngNext(@)]

RECURSIVE placeMonsters(_, _, _, _)
placeMonsters(g, room, dungeonLevel, n) ==
    IF n = 0 \/ ~Ok(g) THEN g
    ELSE LET x == randintValue(g.rng, room.x1, room.x2)
             y == randintValue(RngNext(g.rng), room.y1, room.y2)
             g2 == [g EXCEPT !.rng = RngNext(RngNext(@))]
             type == getWeightedValue(g2.rng, monsterChances(dungeonLevel))
         IN  IF ~blockingEntityAtOk(g.entities, x, y)
                THEN Throw(g2, "invalid: more than one blocking entity")
             ELSE IF blockingEntityAt(g.entities, x, y) = NULL
                THEN placeMonsters(createEntity(drawn(g2), type, [x |-> x, y |-> y],
                                                monsterProps(type)),
                                   room, dungeonLevel, n - 1)
             ELSE placeMonsters(g2, room, dungeonLevel, n - 1)

\* items scattered over the whole grid instead of the room
RECURSIVE placeItemsAnywhere(_, _, _, _)
placeItemsAnywhere(g, room, dungeonLevel, n) ==
    IF n = 0 \/ ~Ok(g) THEN g
    ELSE LET x == randintValue(g.rng, 0, WIDTH - 1)
             y == randintValue(RngNext(g.rng), 0, HEIGHT - 1)
             g2 == [g EXCEPT !.rng = RngNext(RngNext(@))]
             type == getWeightedValue(g2.rng, itemChances(dungeonLevel))
         IN  IF allEntitiesAt(g.entities, x, y) = <<>>
                THEN placeItemsAnywhere(createEntity(drawn(g2), type, [x |-> x, y |-> y], NoProps),
                                        room, dungeonLevel, n - 1)
             ELSE placeItemsAnywhere(g2, room, dungeonLevel, n - 1)

RECURSIVE placeItems(_, _, _, _)
placeItems(g, room, dungeonLevel, n) ==
    IF n = 0 \/ ~Ok(g) THEN g
    ELSE LET x == randintValue(g.rng, room.x1, room.x2)
             y == randintValue(RngNext(g.rng), room.y1, room.y2)
             g2 == [g EXCEPT !.rng = RngNext(RngNext(@))]
             type == getWeightedValue(g2.rng, itemChances(dungeonLevel))
         IN  IF allEntitiesAt(g.entities, x, y) = <<>>
                THEN placeItems(createEntity(drawn(g2), type, [x |-> x, y |-> y], NoProps),
                                room, dungeonLevel, n - 1)
             ELSE placeItems(g2, room, dungeonLevel, n - 1)

populateRoom(g, room, dungeonLevel) ==
    LET maxMonstersPerRoom ==
            evaluateStepFunction(<< <<1, 2>>, <<4, 3>>, <<6, 5>> >>, dungeonLevel)
        maxItemsPerRoom == evaluateStepFunction(<< <<1, 1>>, <<4, 2>> >>, dungeonLevel)
        numMonsters == randintValue(g.rng, 0, maxMonstersPerRoom)
    IN  With(placeMonsters(drawn(g), room, dungeonLevel, numMonsters),
             LAMBDA g1 :
                IF ~Ok(g1) THEN g1
                ELSE placeItems(drawn(g1), room, dungeonLevel,
                                randintValue(g1.rng, 0, maxItemsPerRoom)))

RECURSIVE populateRooms(_, _, _, _)
populateRooms(g, rooms, i, dungeonLevel) ==
    IF i > Len(rooms) \/ ~Ok(g) THEN g
    ELSE populateRooms(populateRoom(g, rooms[i], dungeonLevel), rooms, i + 1, dungeonLevel)

\* createTileMap(dungeonLevel); the caller's `tileMap = ...` is part of it
createTileMap(g, dungeonLevel) ==
    LET layout == Layouts[randintValue(g.rng, 1, Len(Layouts))]
        rooms == layout.rooms
        placed == moveEntityTo(drawn(g), g.entities[g.player], getCenter(rooms[1]))
        withStairs == createEntity(placed, "stairs", getCenter(rooms[Len(rooms)]), NoProps)
    IN  With(populateRooms(withStairs, rooms, 1, dungeonLevel),
             LAMBDA g3 :
                IF ~Ok(g3) THEN g3
                ELSE [g3 EXCEPT !.tileMap = [_values |-> digTiles(layout),
                                              dungeonLevel |-> dungeonLevel,
                                              rooms |-> rooms,
                                              corridors |-> layout.corridors]])

(***************************************************************************)
(* Module initialisation: the player and its starting equipment (the       *)
(* `player` IIFE), the first map, the welcome message and the first draw.  *)
(***************************************************************************)
\* the five overlays, all closed; the targeting callback starts as a thrower
noOverlay ==
    [targeting |-> FALSE, callback |-> [spell |-> "unset"], upgrade |-> FALSE,
     inventoryUse |-> FALSE, inventoryDrop |-> FALSE, character |-> FALSE]

emptyGame(seed) ==
    [entities |-> [i \in {} |-> NULL], id |-> 0, rng |-> seed, messages |-> <<>>,
     tileMap |-> [_values |-> [c \in {} |-> NULL], dungeonLevel |-> 0,
                  rooms |-> <<>>, corridors |-> {}],
     player |-> NULL, overlay |-> noOverlay,
     fault |-> NoFault, phases |-> 0, attacks |-> <<>>, atPhase |-> <<>>,
     processed |-> <<>>, confusion |-> [i \in {} |-> NULL]]

\* equip without `player.equipment[slot] = entity.id`
equipLeavingSlotEmpty(g, owner, slot, type) ==
    createEntity(g, type, [equipped_by |-> owner, slot |-> slot], NoProps)

\* function equip(slot, type) inside the player IIFE
equip(g, owner, slot, type) ==
    With(createEntity(g, type, [equipped_by |-> owner, slot |-> slot], NoProps),
         LAMBDA g1 : [g1 EXCEPT !.entities[owner].equipment[slot] = g1.id])

createPlayer(g) ==
    With(createEntity(g, "player", NOWHERE,
                  [base_max_hp |-> 100, base_defense |-> 1, base_power |-> 4,
                   xp |-> 0, level |-> 1,
                   inventory |-> createInventoryArray(INVENTORY_CAPACITY),
                   equipment |-> createInventoryArray(INVENTORY_CAPACITY)]),
         LAMBDA g1 :
            [equip(equip(g1, g1.id, EQUIP_MAIN_HAND, "dagger"),
                   g1.id, EQUIP_OFF_HAND, "towel") EXCEPT !.player = g1.id])

draw(g) == IF ~Ok(g) THEN g ELSE computeLightMap(g, g.entities[g.player].location)

newGame(seed) ==
    draw(print(createTileMap(createPlayer(emptyGame(seed)), 1),
               <<"Hello and welcome, adventurer, to yet another dungeon!">>, "welcome"))


(***************************************************************************)
(* Leveling and combat                                                     *)
(***************************************************************************)
xpForLevel(level) == 200 * level + (150 * (level * (level + 1))) \div 2

\* the loop of gainXp as an `if`: one level at most
levelUpsOnce(g, id) ==
    IF ~Ok(g) \/ ~(g.entities[id].xp > xpForLevel(g.entities[id].level)) THEN g
    ELSE LET g1 == [g EXCEPT !.entities[id].level = @ + 1]
             g2 == print(g1, <<"Your battle skills grow stronger! You reached level",
                               g1.entities[id].level>>, "warning")
         IN  [g2 EXCEPT !.overlay.upgrade = TRUE]

RECURSIVE levelUps(_, _)
levelUps(g, id) ==
    IF ~Ok(g) \/ ~(g.entities[id].xp > xpForLevel(g.entities[id].level)) THEN g
    ELSE LET g1 == [g EXCEPT !.entities[id].level = @ + 1]
             g2 == print(g1, <<"Your battle skills grow stronger! You reached level",
                               g1.entities[id].level>>, "warning")
         IN  levelUps([g2 EXCEPT !.overlay.upgrade = TRUE], id)

gainXp(g, id, amount) ==
    IF ~Ok(g) \/ "xp" \notin DOMAIN g.entities[id] THEN g
    ELSE LET g1 == [g EXCEPT !.entities[id].xp = @ + amount]
         IN  IF id # g.player THEN Throw(g1, "XP for non-player not implemented")
             ELSE levelUps(print(g1, <<"You gain experience points", amount>>, "info"), id)

Alive(e) == ~("dead" \in DOMAIN e /\ e.dead)

\* asCorpse without `delete target.ai`
asCorpseKeepingAi(e) ==
    [dead |-> TRUE] @@ [e EXCEPT !.type = "corpse", !.name = @ \o "'s corpse"]

\* `delete target.ai`, with dead, type and name set
asCorpse(e) ==
    LET marked == [dead |-> TRUE] @@ [e EXCEPT !.type = "corpse", !.name = @ \o "'s corpse"]
    IN  [k \in DOMAIN marked \ {"ai"} |-> marked[k]]

\* dies without the call of gainXp
diesWithoutAward(g, source, target) ==
    LET t == g.entities[target]
        announced == print(g, <<"dies", t.name>>,
                           IF target = g.player THEN "player-die" ELSE "enemy-die")
    IN  IF Ok(announced) THEN [announced EXCEPT !.entities[target] = asCorpse(@)]
        ELSE announced

\* the body of `if (target.hp <= 0)`
dies(g, source, target) ==
    LET t == g.entities[target]
        announced == print(g, <<"dies", t.name>>,
                           IF target = g.player THEN "player-die" ELSE "enemy-die")
    IN  With(IF HasProp(t, "xp_award") THEN gainXp(announced, source, PropOf(t, "xp_award"))
             ELSE announced,
             LAMBDA g3 :
                IF Ok(g3) THEN [g3 EXCEPT !.entities[target] = asCorpse(@)] ELSE g3)

\* takeDamage without the body of `if (target.hp <= 0)`
takeDamageWithoutDeath(g, source, target, amount) ==
    IF ~Ok(g) THEN g ELSE [g EXCEPT !.entities[target].hp = @ - amount]

takeDamage(g, source, target, amount) ==
    IF ~Ok(g) THEN g
    ELSE IF g.entities[target].hp - amount <= 0
        THEN dies([g EXCEPT !.entities[target].hp = @ - amount], source, target)
    ELSE [g EXCEPT !.entities[target].hp = @ - amount]

\* history: the attack just made, with the defender's hp before and after it
noteAttack(g, made) ==
    [g EXCEPT !.attacks =
        Append(@, made @@ [after |-> g.entities[made.defender].hp,
                           died |-> ~Alive(g.entities[made.defender])])]

\* attack without the `damage > 0` test
attackUnchecked(g, attacker, defender) ==
    IF ~Ok(g) THEN g
    ELSE LET a == g.entities[attacker]
             d == g.entities[defender]
             damage == effective_power(g.entities, a) - effective_defense(g.entities, d)
             color == IF attacker = g.player THEN "player-attack" ELSE "enemy-attack"
         IN  noteAttack(
                 takeDamage(print(g, <<"attacks for", a.name, d.name, damage>>, color),
                            attacker, defender, damage),
                 [attacker |-> attacker, defender |-> defender,
                  power |-> effective_power(g.entities, a),
                  defense |-> effective_defense(g.entities, d),
                  before |-> d.hp])

attack(g, attacker, defender) ==
    IF ~Ok(g) THEN g
    ELSE LET a == g.entities[attacker]
             d == g.entities[defender]
             damage == effective_power(g.entities, a) - effective_defense(g.entities, d)
             color == IF attacker = g.player THEN "player-attack" ELSE "enemy-attack"
         IN  noteAttack(
                 IF damage > 0
                 THEN takeDamage(print(g, <<"attacks for", a.name, d.name, damage>>, color),
                                 attacker, defender, damage)
                 ELSE print(g, <<"attacks but does no damage", a.name, d.name>>, color),
                 [attacker |-> attacker, defender |-> defender,
                  power |-> effective_power(g.entities, a),
                  defense |-> effective_defense(g.entities, d),
                  before |-> d.hp])

\* squared euclidean distance: distance(a, b) <= r  iff  distanceSq(a, b) <= r * r
distanceSq(a, b) == (a.x - b.x) * (a.x - b.x) + (a.y - b.y) * (a.y - b.y)

(***************************************************************************)
(* Monster actions                                                         *)
(***************************************************************************)
hasTile(g, x, y) == <<x, y>> \in DOMAIN g.tileMap._values
walkableAt(g, x, y) == g.tileMap._values[<<x, y>>].walkable

sign(n) == IF n < 0 THEN -1 ELSE 1

\* stepTowards without "another monster there; can't move"
stepTowardsThroughMonsters(g, id, x, y) ==
    IF ~hasTile(g, x, y) THEN Throw(g, "TypeError")
    ELSE IF ~walkableAt(g, x, y) THEN g
    ELSE IF ~blockingEntityAtOk(g.entities, x, y)
        THEN Throw(g, "invalid: more than one blocking entity")
    ELSE With(blockingEntityAt(g.entities, x, y),
              LAMBDA target :
                 IF target # NULL /\ target = g.player THEN attack(g, id, g.player)
                 ELSE moveEntityTo(g, g.entities[id], [x |-> x, y |-> y]))

\* the step of a lit monster towards (x, y), after its random draw
stepTowards(g, id, x, y) ==
    IF ~hasTile(g, x, y) THEN Throw(g, "TypeError")
    ELSE IF ~walkableAt(g, x, y) THEN g
    ELSE IF ~blockingEntityAtOk(g.entities, x, y)
        THEN Throw(g, "invalid: more than one blocking entity")
    ELSE With(blockingEntityAt(g.entities, x, y),
              LAMBDA target :
                 IF target # NULL /\ target = g.player THEN attack(g, id, g.player)
                 ELSE IF target # NULL THEN g
                 ELSE moveEntityTo(g, g.entities[id], [x |-> x, y |-> y]))

\* moveToPlayer without the test of the light map
moveToPlayerUnseen(g, id, lightMap) ==
    LET e == g.entities[id]
        p == g.entities[g.player]
        dx == p.location.x - e.location.x
        dy == p.location.y - e.location.y
        horizontal == randintValue(g.rng, 1, Abs(dx) + Abs(dy)) <= Abs(dx)
    IN  IF dx = 0 /\ dy = 0 THEN Throw(drawn(g), "TypeError")
        ELSE stepTowards(drawn(g), id,
                         e.location.x + (IF horizontal THEN sign(dx) ELSE 0),
                         e.location.y + (IF horizontal THEN 0 ELSE sign(dy)))

moveToPlayer(g, id, lightMap) ==
    LET e == g.entities[id]
        p == g.entities[g.player]
        dx == p.location.x - e.location.x
        dy == p.location.y - e.location.y
        horizontal == randintValue(g.rng, 1, Abs(dx) + Abs(dy)) <= Abs(dx)
    IN  IF ~Lit(lightMap, e.location) THEN g
        \* dx = dy = 0: the step is 0/0 = NaN and no tile has that key
        ELSE IF dx = 0 /\ dy = 0 THEN Throw(drawn(g), "TypeError")
        ELSE stepTowards(drawn(g), id,
                         e.location.x + (IF horizontal THEN sign(dx) ELSE 0),
                         e.location.y + (IF horizontal THEN 0 ELSE sign(dy)))

\* the step of a confused monster that attacks the player when it stumbles
\* into the player's tile
stumbleToAttacking(g, id, x, y) ==
    IF ~hasTile(g, x, y) THEN Throw(g, "TypeError")
    ELSE IF ~walkableAt(g, x, y) THEN g
    ELSE IF ~blockingEntityAtOk(g.entities, x, y)
        THEN Throw(g, "invalid: more than one blocking entity")
    ELSE IF blockingEntityAt(g.entities, x, y) = NULL
        THEN moveEntityTo(g, g.entities[id], [x |-> x, y |-> y])
    ELSE IF blockingEntityAt(g.entities, x, y) = g.player THEN attack(g, id, g.player)
    ELSE g

\* the step of a confused monster to (x, y), after its two random draws
stumbleTo(g, id, x, y) ==
    IF ~hasTile(g, x, y) THEN Throw(g, "TypeError")
    ELSE IF ~walkableAt(g, x, y) THEN g
    ELSE IF ~blockingEntityAtOk(g.entities, x, y)
        THEN Throw(g, "invalid: more than one blocking entity")
    ELSE IF blockingEntityAt(g.entities, x, y) = NULL
        THEN moveEntityTo(g, g.entities[id], [x |-> x, y |-> y])
    ELSE g

\* confusedStep with `entity.ai.turns-- > 0`
confusedStepPostDecrement(g, id) ==
    LET e == g.entities[id]
        turns == e.ai.turns - 1
        stepx == randintValue(g.rng, -1, 1)
        stepy == randintValue(RngNext(g.rng), -1, 1)
    IN  IF e.ai.turns > 0
        THEN stumbleTo([g EXCEPT !.entities[id].ai.turns = turns,
                                 !.rng = RngNext(RngNext(@))],
                       id, e.location.x + stepx, e.location.y + stepy)
        ELSE print([g EXCEPT !.entities[id].ai = movesToPlayer,
                             !.confusion[id].recoveries = @ + 1],
                   <<"is no longer confused", e.name>>, "enemy-attack")

confusedStep(g, id) ==
    LET e == g.entities[id]
        turns == e.ai.turns - 1
        stepx == randintValue(g.rng, -1, 1)
        stepy == randintValue(RngNext(g.rng), -1, 1)
    IN  IF turns > 0
        THEN stumbleTo([g EXCEPT !.entities[id].ai.turns = turns,
                                 !.rng = RngNext(RngNext(@))],
                       id, e.location.x + stepx, e.location.y + stepy)
        ELSE print([g EXCEPT !.entities[id].ai = movesToPlayer,
                             !.confusion[id].recoveries = @ + 1],
                   <<"is no longer confused", e.name>>, "enemy-attack")

\* the switch of enemiesMove without its case 'confused'
enemyTurnWithoutConfused(g, id, lightMap) ==
    LET e == g.entities[id]
        g1 == [g EXCEPT !.processed = Append(@, id)]
    IN  IF ~(Alive(e) /\ OnMap(e) /\ "ai" \in DOMAIN e) THEN g
        ELSE IF e.ai.behavior = "move_to_player" THEN moveToPlayer(g1, id, lightMap)
        ELSE Throw(g1, "unknown enemy ai")

\* history: `processed` lists the entities whose behaviour the loop has run
enemyTurn(g, id, lightMap) ==
    LET e == g.entities[id]
        g1 == [g EXCEPT !.processed = Append(@, id)]
    IN  IF ~(Alive(e) /\ OnMap(e) /\ "ai" \in DOMAIN e) THEN g
        ELSE IF e.ai.behavior = "move_to_player" THEN moveToPlayer(g1, id, lightMap)
        ELSE IF e.ai.behavior = "confused" THEN confusedStep(g1, id)
        ELSE Throw(g1, "unknown enemy ai")

RECURSIVE enemyTurns(_, _, _)
enemyTurns(g, ids, lightMap) ==
    IF ids = <<>> \/ ~Ok(g) THEN g
    ELSE enemyTurns(enemyTurn(g, Head(ids), lightMap), Tail(ids), lightMap)

enemiesMove(g) ==
    IF ~Ok(g) THEN g
    ELSE With(lightMapOf(g, g.entities[g.player].location),
              LAMBDA lightMap :
                 enemyTurns([computeLightMap(g, g.entities[g.player].location)
                                EXCEPT !.phases = @ + 1, !.atPhase = g.entities,
                                       !.confusion = [i \in DOMAIN @ |->
                                            [@[i] EXCEPT !.phases = @ + 1]]],
                            EntityIds(g.entities), lightMap))

(***************************************************************************)
(* Equipment and items                                                     *)
(***************************************************************************)
\* swapEquipment without the test that the held item goes to its own slot
swapEquipmentAnySlot(g, owner, inventory_slot, equipment_slot) ==
    LET entity == g.entities[owner]
        heldId == entity.inventory[inventory_slot]
        equippedId == entity.equipment[equipment_slot]
    IN  IF ~Ok(g) THEN g
        ELSE IF heldId = NULL
            THEN Throw(g, "invalid: swap equipment must be with non-empty inventory slot")
        ELSE IF equippedId = NULL
            THEN Throw(g, "invalid: swap equipment must be with non-empty equipment slot")
        ELSE IF ~HasProp(g.entities[heldId], "equipment_slot")
            THEN Throw(g, "invalid: swap equipment must be with something equippable")
        ELSE [g EXCEPT !.entities[owner].inventory[inventory_slot] = equippedId,
                       !.entities[owner].equipment[equipment_slot] = heldId,
                       !.entities[heldId].location =
                            [equipped_by |-> owner, slot |-> equipment_slot],
                       !.entities[equippedId].location =
                            [carried_by |-> owner, slot |-> inventory_slot]]

swapEquipment(g, owner, inventory_slot, equipment_slot) ==
    LET entity == g.entities[owner]
        heldId == entity.inventory[inventory_slot]
        equippedId == entity.equipment[equipment_slot]
        held == g.entities[heldId]
        equipped == g.entities[equippedId]
    IN  IF ~Ok(g) THEN g
        ELSE IF heldId = NULL
            THEN Throw(g, "invalid: swap equipment must be with non-empty inventory slot")
        ELSE IF equippedId = NULL
            THEN Throw(g, "invalid: swap equipment must be with non-empty equipment slot")
        ELSE IF ~("carried_by" \in DOMAIN held.location /\ held.location.carried_by = owner)
            THEN Throw(g, "invalid: inventory item not held by entity")
        ELSE IF held.location.slot # inventory_slot
            THEN Throw(g, "invalid: inventory item not held in correct slot")
        ELSE IF ~("equipped_by" \in DOMAIN equipped.location
                  /\ equipped.location.equipped_by = owner)
            THEN Throw(g, "invalid: item not equipped by entity")
        ELSE IF equipped.location.slot # equipment_slot
            THEN Throw(g, "invalid: item not equipped in correct slot")
        ELSE IF ~HasProp(held, "equipment_slot")
            THEN Throw(g, "invalid: swap equipment must be with something equippable")
        ELSE IF PropOf(held, "equipment_slot") # equipment_slot
            THEN Throw(g, "invalid: swap equipment must be to the correct slot")
        ELSE [g EXCEPT !.entities[owner].inventory[inventory_slot] = equippedId,
                       !.entities[owner].equipment[equipment_slot] = heldId,
                       !.entities[heldId].location =
                            [equipped_by |-> owner, slot |-> equipment_slot],
                       !.entities[equippedId].location =
                            [carried_by |-> owner, slot |-> inventory_slot]]

RECURSIVE burn(_, _, _, _)
burn(g, caster, targets, damage) ==
    IF targets = <<>> \/ ~Ok(g) THEN g
    ELSE burn(takeDamage(print(g, <<"gets burned for", g.entities[Head(targets)].name,
                                    damage>>, "player-attack"),
                         caster, Head(targets), damage),
              caster, Tail(targets), damage)

\* castFireball, castConfusion and castLighting return the state; their
\* boolean result is the operator of the same name suffixed with Used
fireballUsed(g, caster, x, y) ==
    <<x, y>> \in lightMapOf(g, g.entities[caster].location)

\* fireballTargets without the filter on the distance to the point
fireballTargetsAnywhere(g, caster, x, y) ==
    LET at == [x |-> x, y |-> y]
    IN  With(<<lightMapOf(g, g.entities[caster].location), lightMapOf(g, at)>>,
             LAMBDA visible :
                SelectSeq(EntityIds(g.entities),
                    LAMBDA i : LET e == g.entities[i]
                               IN  /\ OnMap(e)
                                   /\ "hp" \in DOMAIN e /\ Alive(e)
                                   /\ Lit(visible[2], e.location)
                                   /\ Lit(visible[1], e.location)))

\* the entities a fireball at (x, y) burns, in store order
fireballTargets(g, caster, x, y) ==
    LET maximum_range == 3
        at == [x |-> x, y |-> y]
    IN  With(<<lightMapOf(g, g.entities[caster].location), lightMapOf(g, at)>>,
             LAMBDA visible :
                SelectSeq(EntityIds(g.entities),
                    LAMBDA i : LET e == g.entities[i]
                               IN  /\ OnMap(e)
                                   /\ "hp" \in DOMAIN e /\ Alive(e)
                                   /\ Lit(visible[2], e.location)
                                   /\ Lit(visible[1], e.location)
                                   /\ distanceSq(e.location, at)
                                          <= maximum_range * maximum_range))

castFireball(g, caster, x, y) ==
    LET maximum_range == 3
        damage == 25
    IN  IF ~Ok(g) THEN g
        ELSE IF ~fireballUsed(g, caster, x, y)
            THEN print(computeLightMap(g, g.entities[caster].location),
                       <<"You cannot target a tile outside your field of view.">>,
                       "warning")
        ELSE burn(print(computeLightMap(computeLightMap(g, g.entities[caster].location),
                                        [x |-> x, y |-> y]),
                        <<"The fireball explodes", maximum_range>>, "player-attack"),
                  caster, fireballTargets(g, caster, x, y), damage)

confusionTarget(g, x, y) ==
    LET target == blockingEntityAt(g.entities, x, y)
    IN  IF target # NULL /\ "hp" \in DOMAIN g.entities[target] /\ Alive(g.entities[target])
           /\ "ai" \in DOMAIN g.entities[target]
        THEN target ELSE NULL

confusionUsed(g, caster, x, y) ==
    /\ <<x, y>> \in lightMapOf(g, g.entities[caster].location)
    /\ blockingEntityAtOk(g.entities, x, y)
    /\ confusionTarget(g, x, y) # NULL

castConfusion(g, caster, x, y) ==
    IF ~Ok(g) THEN g
    ELSE IF ~(<<x, y>> \in lightMapOf(g, g.entities[caster].location))
        THEN print(computeLightMap(g, g.entities[caster].location),
                   <<"You cannot target a tile outside your field of view.">>, "warning")
    ELSE With(computeLightMap(computeLightMap(g, g.entities[caster].location),
                              [x |-> x, y |-> y]),
              LAMBDA g2 :
                 IF ~blockingEntityAtOk(g2.entities, x, y)
                     THEN Throw(g2, "invalid: more than one blocking entity")
                 ELSE With(confusionTarget(g2, x, y),
                           LAMBDA target :
                              IF target # NULL
                              THEN print([g2 EXCEPT !.entities[target].ai =
                                                [behavior |-> "confused", turns |-> 10],
                                            !.confusion = (target :>
                                                [phases |-> 0, recoveries |-> 0]) @@ @],
                                         <<"The eyes look vacant", g2.entities[target].name>>,
                                         "enemy-die")
                              ELSE print(g2,
                                         <<"There is no targetable enemy at that location.">>,
                                         "warning")))

\* castLighting taking the last of the attackables in store order
lightningTargetUnsorted(g, caster) ==
    LET maximum_range == 5
        c == g.entities[caster]
        visibleToCaster == lightMapOf(g, c.location)
        attackables ==
            SelectSeq(EntityIds(g.entities),
                LAMBDA i : LET e == g.entities[i]
                           IN  /\ e.id # c.id
                               /\ OnMap(e)
                               /\ "hp" \in DOMAIN e /\ Alive(e)
                               /\ Lit(visibleToCaster, e.location)
                               /\ distanceSq(e.location, c.location)
                                      <= maximum_range * maximum_range)
    IN  IF attackables = <<>> THEN NULL ELSE attackables[Len(attackables)]

\* the target of castLighting: the closest attackable, the first in store
\* order among equally close ones (Array.prototype.sort is stable), or NULL
lightningTarget(g, caster) ==
    LET maximum_range == 5
        c == g.entities[caster]
        visibleToCaster == lightMapOf(g, c.location)
        attackables ==
            SelectSeq(EntityIds(g.entities),
                LAMBDA i : LET e == g.entities[i]
                           IN  /\ e.id # c.id
                               /\ OnMap(e)
                               /\ "hp" \in DOMAIN e /\ Alive(e)
                               /\ Lit(visibleToCaster, e.location)
                               /\ distanceSq(e.location, c.location)
                                      <= maximum_range * maximum_range)
        closest == SelectSeq(attackables,
                LAMBDA i : \A k \in 1 .. Len(attackables) :
                    distanceSq(g.entities[i].location, c.location)
                        <= distanceSq(g.entities[attackables[k]].location, c.location))
    IN  IF attackables = <<>> THEN NULL ELSE closest[1]

castLighting(g, caster) ==
    LET damage == 40
    IN  IF ~Ok(g) THEN g
        ELSE With(lightningTarget(g, caster),
                  LAMBDA target :
                     IF target = NULL
                     THEN print(computeLightMap(g, g.entities[caster].location),
                                <<"No enemy is close enough to strike.">>, "error")
                     ELSE takeDamage(print(computeLightMap(g, g.entities[caster].location),
                                           <<"A lighting bolt strikes",
                                             g.entities[target].name, damage>>,
                                           "player-attack"),
                                     caster, target, damage))

openTargeting(g, spell, entity, item) ==
    [g EXCEPT !.overlay.targeting = TRUE,
              !.overlay.callback = [spell |-> spell, entity |-> entity, item |-> item]]

\* consume without moveEntityTo(item, NOWHERE)
consumeKeepingItem(g, item) == enemiesMove(g)

\* what follows a cast that used the item up
consume(g, item) == enemiesMove(moveEntityTo(g, g.entities[item], NOWHERE))

useItem(g, entity, item) ==
    LET it == g.entities[item]
        e == g.entities[entity]
        healing == 40
    IN  IF ~Ok(g) THEN g
        ELSE IF it.type = "healing potion"
            THEN (IF e.hp = effective_max_hp(g.entities, e)
                  THEN print(g, <<"You are already at full health">>, "warning")
                  ELSE consume(
                           [print(g, <<"Your wounds start to feel better!">>, "healing")
                               EXCEPT !.entities[entity].hp =
                                   clamp(@ + healing, 0, effective_max_hp(g.entities, e))],
                           item))
        ELSE IF it.type = "lightning scroll"
            THEN (IF lightningTarget(g, entity) # NULL
                  THEN draw(consume(castLighting(g, entity), item))
                  ELSE castLighting(g, entity))
        ELSE IF it.type = "fireball scroll" THEN openTargeting(g, "fireball", entity, item)
        ELSE IF it.type = "confusion scroll" THEN openTargeting(g, "confusion", entity, item)
        ELSE IF HasProp(it, "equipment_slot")
            THEN enemiesMove(print(
                     swapEquipment(g, g.player, it.location.slot, PropOf(it, "equipment_slot")),
                     <<"You unquip and equip",
                       g.entities[g.entities[g.player].equipment[PropOf(it, "equipment_slot")]].type,
                       it.type>>, "welcome"))
        ELSE Throw(g, "useItem on unknown item")

\* the callback handed to targetingOverlay.open, run by a click on a tile
targetingCallback(g, x, y) ==
    LET cb == g.overlay.callback
        used == IF cb.spell = "fireball" THEN fireballUsed(g, cb.entity, x, y)
                ELSE confusionUsed(g, cb.entity, x, y)
        cast == IF cb.spell = "fireball" THEN castFireball(g, cb.entity, x, y)
                ELSE castConfusion(g, cb.entity, x, y)
    IN  IF ~Ok(g) THEN g
        ELSE IF cb.spell = "unset" THEN Throw(g, "set callback")
        ELSE With(IF used THEN consume(cast, cb.item) ELSE cast,
                  LAMBDA after :
                     IF ~Ok(after) THEN after
                     ELSE draw([after EXCEPT !.overlay.targeting = FALSE]))

\* dropItem without the enemy phase
dropItemFreeAction(g, entity, item) ==
    print(moveEntityTo(g, g.entities[item], g.entities[g.player].location),
          <<"You dropped on the ground", g.entities[item].name>>, "warning")

dropItem(g, entity, item) ==
    enemiesMove(print(moveEntityTo(g, g.entities[item], g.entities[g.player].location),
                      <<"You dropped on the ground", g.entities[item].name>>, "warning"))

(***************************************************************************)
(* Player actions                                                          *)
(***************************************************************************)
\* playerPickupItem with the enemy phase run after a refusal too
playerPickupItemTakesTurn(g) ==
    LET p == g.entities[g.player]
        free == {slot \in DOMAIN p.inventory : p.inventory[slot] = NULL}
        slot == CHOOSE s \in free : \A t \in free : s <= t
    IN  With(itemEntityAt(g.entities, p.location.x, p.location.y),
             LAMBDA item :
                IF item = NULL
                    THEN enemiesMove(print(g, <<"There is nothing here to pick up.">>,
                                           "warning"))
                ELSE IF free = {}
                    THEN enemiesMove(print(g,
                             <<"You cannot carry any more. Your inventory is full.">>,
                             "warning"))
                ELSE enemiesMove(moveEntityTo(
                         print(g, <<"You pick up", g.entities[item].name>>, "pick-up"),
                         g.entities[item], [carried_by |-> p.id, slot |-> slot])))

playerPickupItem(g) ==
    LET p == g.entities[g.player]
        free == {slot \in DOMAIN p.inventory : p.inventory[slot] = NULL}
        slot == CHOOSE s \in free : \A t \in free : s <= t
    IN  With(itemEntityAt(g.entities, p.location.x, p.location.y),
             LAMBDA item :
                IF item = NULL
                    THEN print(g, <<"There is nothing here to pick up.">>, "warning")
                ELSE IF free = {}
                    THEN print(g, <<"You cannot carry any more. Your inventory is full.">>,
                               "warning")
                ELSE enemiesMove(moveEntityTo(
                         print(g, <<"You pick up", g.entities[item].name>>, "pick-up"),
                         g.entities[item], [carried_by |-> p.id, slot |-> slot])))

\* playerMoveBy that steps onto the tile of the monster it attacks
playerMoveByTrampling(g, dx, dy) ==
    LET p == g.entities[g.player]
        x == p.location.x + dx
        y == p.location.y + dy
    IN  IF ~hasTile(g, x, y) THEN Throw(g, "TypeError")
        ELSE IF ~walkableAt(g, x, y) THEN g
        ELSE IF ~blockingEntityAtOk(g.entities, x, y)
            THEN Throw(g, "invalid: more than one blocking entity")
        ELSE With(blockingEntityAt(g.entities, x, y),
                  LAMBDA target :
                     IF target # NULL /\ target # p.id
                     THEN enemiesMove(moveEntityTo(attack(g, g.player, target),
                                                   p, [x |-> x, y |-> y]))
                     ELSE enemiesMove(moveEntityTo(g, p, [x |-> x, y |-> y])))

playerMoveBy(g, dx, dy) ==
    LET p == g.entities[g.player]
        x == p.location.x + dx
        y == p.location.y + dy
    IN  IF ~hasTile(g, x, y) THEN Throw(g, "TypeError")
        ELSE IF ~walkableAt(g, x, y) THEN g
        ELSE IF ~blockingEntityAtOk(g.entities, x, y)
            THEN Throw(g, "invalid: more than one blocking entity")
        ELSE With(blockingEntityAt(g.entities, x, y),
                  LAMBDA target :
                     IF target # NULL /\ target # p.id
                     THEN enemiesMove(attack(g, g.player, target))
                     ELSE enemiesMove(moveEntityTo(g, p, [x |-> x, y |-> y])))

\* a loop that removes only the monsters that are on the map
removeMonstersOnly(g) ==
    [g EXCEPT !.entities =
        [i \in {k \in DOMAIN @ : \/ k = g.entities[g.player].id
                                  \/ ~OnMap(@[k])
                                  \/ "ai" \notin DOMAIN @[k]} |-> @[i]]]

\* the loop that removes anything that is on the map
removeMapEntities(g) ==
    [g EXCEPT !.entities =
        [i \in {k \in DOMAIN @ : k = g.entities[g.player].id \/ ~OnMap(@[k])} |-> @[i]]]

\* the heal without the clamp
restHealUnclamped(g) ==
    With(effective_max_hp(g.entities, g.entities[g.player]),
         LAMBDA max_hp : [g EXCEPT !.entities[g.player].hp = @ + (max_hp \div 2)])

\* player.hp = clamp(player.hp + floor(effective_max_hp / 2), 0, effective_max_hp)
restHeal(g) ==
    With(effective_max_hp(g.entities, g.entities[g.player]),
         LAMBDA max_hp :
            [g EXCEPT !.entities[g.player].hp = clamp(@ + (max_hp \div 2), 0, max_hp)])

\* a descent that numbers the entities of the new level from the player's id
playerGoDownStairsRenumbering(g) ==
    LET p == g.entities[g.player]
        here == allEntitiesAt(g.entities, p.location.x, p.location.y)
    IN  IF ~\E k \in 1 .. Len(here) : Truthy(g.entities[here[k]], "stairs")
        THEN print(g, <<"There are no stairs here.">>, "warning")
        ELSE With(createTileMap([removeMapEntities(g) EXCEPT !.id = p.id],
                                g.tileMap.dungeonLevel + 1),
                  LAMBDA g1 :
                     IF ~Ok(g1) THEN g1
                     ELSE draw(print(restHeal(g1),
                               <<"You take a moment to rest, and recover your strength.">>,
                               "welcome")))

playerGoDownStairs(g) ==
    LET p == g.entities[g.player]
        here == allEntitiesAt(g.entities, p.location.x, p.location.y)
    IN  IF ~\E k \in 1 .. Len(here) : Truthy(g.entities[here[k]], "stairs")
        THEN print(g, <<"There are no stairs here.">>, "warning")
        ELSE With(createTileMap(removeMapEntities(g), g.tileMap.dungeonLevel + 1),
                  LAMBDA g1 :
                     IF ~Ok(g1) THEN g1
                     ELSE draw(print(restHeal(g1),
                               <<"You take a moment to rest, and recover your strength.">>,
                               "welcome")))


(***************************************************************************)
(* Saving and loading.  The JSON text is modelled by the value it encodes: *)
(* the Map becomes an array of [id, entity] pairs, read back pair by pair. *)
(***************************************************************************)
RECURSIVE entriesOf(_, _)
entriesOf(ents, ids) ==
    IF ids = <<>> THEN <<>>
    ELSE << <<Head(ids), ents[Head(ids)]>> >> \o entriesOf(ents, Tail(ids))

serializeGlobalState(g) ==
    [entities |-> entriesOf(g.entities, EntityIds(g.entities)),
     playerId |-> g.entities[g.player].id,
     tileMap |-> g.tileMap,
     messages |-> g.messages,
     nextEntityId |-> g.id,
     rngState |-> g.rng]

\* new Map(pairs): a later pair with the same key replaces an earlier one
mapOfEntries(pairs) ==
    [i \in {pairs[k][1] : k \in 1 .. Len(pairs)} |->
        LET k == CHOOSE k \in 1 .. Len(pairs) :
                    /\ pairs[k][1] = i
                    /\ \A m \in k + 1 .. Len(pairs) : pairs[m][1] # i
        IN  pairs[k][2]]

\* deserializeGlobalState without `ROT.RNG.setState(saved.rngState)`
deserializeWithoutRng(g, saved) ==
    [g EXCEPT !.entities = mapOfEntries(saved.entities),
              !.id = saved.nextEntityId,
              !.player = saved.playerId,
              !.tileMap = saved.tileMap @@ @,
              !.messages = saved.messages]

deserializeGlobalState(g, saved) ==
    [g EXCEPT !.entities = mapOfEntries(saved.entities),
              !.id = saved.nextEntityId,
              !.player = saved.playerId,
              \* Object.assign(tileMap, saved.tileMap)
              !.tileMap = saved.tileMap @@ @,
              !.messages = saved.messages,
              !.rng = saved.rngState]

(***************************************************************************)
(* Input handling: currentKeyHandler and runAction                         *)
(***************************************************************************)
currentKeyHandler ==
    IF overlay.targeting THEN "targeting"
    ELSE IF overlay.upgrade THEN "upgrade"
    ELSE IF overlay.inventoryUse THEN "inventory-use"
    ELSE IF overlay.inventoryDrop THEN "inventory-drop"
    ELSE IF overlay.character THEN "character"
    ELSE IF ~Alive(entities[player]) THEN "dead"
    ELSE "play"

\* the state a handler starts from
Game ==
    [entities |-> entities, id |-> createEntity_id, rng |-> rngState,
     messages |-> messages, tileMap |-> tileMap, player |-> player,
     overlay |-> overlay, fault |-> NoFault,
     phases |-> 0, attacks |-> <<>>, atPhase |-> <<>>, processed |-> <<>>,
     confusion |-> confusion]

\* history: what the input found
Before ==
    [dungeonLevel |-> tileMap.dungeonLevel, rng |-> rngState, hp |-> entities[player].hp]

\* the state a handler leaves, and the record of what it did
Commit(g, action) ==
    /\ inputsLeft > 0
    /\ entities' = g.entities
    /\ player' = g.player
    /\ createEntity_id' = g.id
    /\ tileMap' = g.tileMap
    /\ messages' = g.messages
    /\ rngState' = g.rng
    /\ overlay' = g.overlay
    /\ fault' = g.fault
    /\ confusion' = g.confusion
    /\ last' = [action |-> action, phases |-> g.phases, attacks |-> g.attacks,
                atPhase |-> g.atPhase, processed |-> g.processed, before |-> Before]
    /\ inputsLeft' = inputsLeft - 1

upgradeStat(g, stat) ==
    LET g1 == IF stat = "hp"
              THEN [g EXCEPT !.entities[g.player].base_max_hp = @ + 20,
                             !.entities[g.player].hp = @ + 20]
              ELSE IF stat = "str"
              THEN [g EXCEPT !.entities[g.player].base_power = @ + 1]
              ELSE [g EXCEPT !.entities[g.player].base_defense = @ + 1]
    IN  [g1 EXCEPT !.overlay.upgrade = FALSE]

Move(dx, dy) ==
    /\ currentKeyHandler = "play"
    /\ Commit(draw(playerMoveBy(Game, dx, dy)), <<"move", dx, dy>>)
    /\ UNCHANGED <<DEBUG_ALL_EXPLORED, storage, snapshot>>

Pickup ==
    /\ currentKeyHandler = "play"
    /\ Commit(draw(playerPickupItem(Game)), <<"pickup">>)
    /\ UNCHANGED <<DEBUG_ALL_EXPLORED, storage, snapshot>>

StairsDown ==
    /\ currentKeyHandler = "play"
    /\ Commit(draw(playerGoDownStairs(Game)), <<"stairs-down">>)
    /\ UNCHANGED <<DEBUG_ALL_EXPLORED, storage, snapshot>>

\* opening the inventory as an action that costs a turn
InventoryOpenUseTakesTurn ==
    /\ currentKeyHandler = "play"
    /\ Commit(draw(enemiesMove([Game EXCEPT !.overlay.inventoryUse = TRUE])),
              <<"inventory-open-use">>)
    /\ UNCHANGED <<DEBUG_ALL_EXPLORED, storage, snapshot>>

InventoryOpenUse ==
    /\ currentKeyHandler = "play"
    /\ Commit(draw([Game EXCEPT !.overlay.inventoryUse = TRUE]), <<"inventory-open-use">>)
    /\ UNCHANGED <<DEBUG_ALL_EXPLORED, storage, snapshot>>

InventoryCloseUse ==
    /\ currentKeyHandler = "inventory-use"
    /\ Commit(draw([Game EXCEPT !.overlay.inventoryUse = FALSE]), <<"inventory-close-use">>)
    /\ UNCHANGED <<DEBUG_ALL_EXPLORED, storage, snapshot>>

InventoryOpenDrop ==
    /\ currentKeyHandler = "play"
    /\ Commit(draw([Game EXCEPT !.overlay.inventoryDrop = TRUE]), <<"inventory-open-drop">>)
    /\ UNCHANGED <<DEBUG_ALL_EXPLORED, storage, snapshot>>

InventoryCloseDrop ==
    /\ currentKeyHandler = "inventory-drop"
    /\ Commit(draw([Game EXCEPT !.overlay.inventoryDrop = FALSE]), <<"inventory-close-drop">>)
    /\ UNCHANGED <<DEBUG_ALL_EXPLORED, storage, snapshot>>

CharacterOpen ==
    /\ currentKeyHandler \in {"play", "dead"}
    /\ Commit(draw([Game EXCEPT !.overlay.character = TRUE]), <<"character-open">>)
    /\ UNCHANGED <<DEBUG_ALL_EXPLORED, storage, snapshot>>

CharacterClose ==
    /\ currentKeyHandler = "character"
    /\ Commit(draw([Game EXCEPT !.overlay.character = FALSE]), <<"character-close">>)
    /\ UNCHANGED <<DEBUG_ALL_EXPLORED, storage, snapshot>>

TargetingCancel ==
    /\ currentKeyHandler = "targeting"
    /\ Commit(draw([Game EXCEPT !.overlay.targeting = FALSE]), <<"targeting-cancel">>)
    /\ UNCHANGED <<DEBUG_ALL_EXPLORED, storage, snapshot>>

\* a click on the targeting overlay, which takes clicks while it is visible
TargetingClick(x, y) ==
    /\ overlay.targeting
    /\ Commit(targetingCallback(Game, x, y), <<"click", x, y>>)
    /\ UNCHANGED <<DEBUG_ALL_EXPLORED, storage, snapshot>>

Upgrade(stat) ==
    /\ currentKeyHandler = "upgrade"
    /\ Commit(draw(upgradeStat(Game, stat)), <<"upgrade", stat>>)
    /\ UNCHANGED <<DEBUG_ALL_EXPLORED, storage, snapshot>>

\* handleInventoryKeys: a letter whose slot holds an item
InventoryDoUse(slot) ==
    /\ currentKeyHandler = "inventory-use"
    /\ entities[player].inventory[slot] # NULL
    /\ Commit(draw(useItem([Game EXCEPT !.overlay.inventoryUse = FALSE], player,
                           entities[player].inventory[slot])),
              <<"inventory-do-use", entities[player].inventory[slot]>>)
    /\ UNCHANGED <<DEBUG_ALL_EXPLORED, storage, snapshot>>

InventoryDoDrop(slot) ==
    /\ currentKeyHandler = "inventory-drop"
    /\ entities[player].inventory[slot] # NULL
    /\ Commit(draw(dropItem([Game EXCEPT !.overlay.inventoryDrop = FALSE], player,
                            entities[player].inventory[slot])),
              <<"inventory-do-drop", entities[player].inventory[slot]>>)
    /\ UNCHANGED <<DEBUG_ALL_EXPLORED, storage, snapshot>>

SaveGame ==
    /\ currentKeyHandler = "play"
    /\ storage' = serializeGlobalState(Game)
    /\ snapshot' = Game
    /\ Commit(draw(Game), <<"save-game">>)
    /\ UNCHANGED DEBUG_ALL_EXPLORED

\* the history of confusion goes back with the state it describes
RestoreGame ==
    /\ currentKeyHandler \in {"play", "dead"}
    /\ IF storage = NoSave
       THEN Commit(draw(Game), <<"restore-game", FALSE>>)
       ELSE Commit(draw([deserializeGlobalState(Game, storage)
                            EXCEPT !.confusion = snapshot.confusion]),
                   <<"restore-game", TRUE>>)
    /\ UNCHANGED <<DEBUG_ALL_EXPLORED, storage, snapshot>>

ToggleDebug ==
    /\ currentKeyHandler \in {"play", "dead"}
    /\ DEBUG_ALL_EXPLORED' = ~DEBUG_ALL_EXPLORED
    /\ Commit(draw(Game), <<"toggle-debug">>)
    /\ UNCHANGED <<storage, snapshot>>

(***************************************************************************)
(* The key handlers.  A handler maps event.key to an action, or to nothing *)
(* (undefined or false), in which case handleKeyDown does not call         *)
(* runAction.                                                              *)
(***************************************************************************)
NoAction == <<>>

Slots == 0 .. INVENTORY_CAPACITY - 1

Letters ==
    <<"a", "b", "c", "d", "e", "f", "g", "h", "i", "j", "k", "l", "m",
      "n", "o", "p", "q", "r", "s", "t", "u", "v", "w", "x", "y", "z">>

\* the keys pressed in the model: every key some handler binds
Keys ==
    {"ArrowRight", "ArrowLeft", "ArrowDown", "ArrowUp", "l", "h", "j", "k", "z",
     "g", ">", "u", "d", "s", "o", "r", "c", "a", "b", "Escape"}

handlePlayerDeadKeys(key) ==
    IF key = "o" THEN <<"toggle-debug">>
    ELSE IF key = "r" THEN <<"restore-game">>
    ELSE IF key = "c" THEN <<"character-open">>
    ELSE NoAction

handlePlayerKeys(key) ==
    IF key \in {"ArrowRight", "l"} THEN <<"move", 1, 0>>
    ELSE IF key \in {"ArrowLeft", "h"} THEN <<"move", -1, 0>>
    ELSE IF key \in {"ArrowDown", "j"} THEN <<"move", 0, 1>>
    ELSE IF key \in {"ArrowUp", "k"} THEN <<"move", 0, -1>>
    ELSE IF key = "z" THEN <<"move", 0, 0>>
    ELSE IF key = "g" THEN <<"pickup">>
    ELSE IF key = ">" THEN <<"stairs-down">>
    ELSE IF key = "u" THEN <<"inventory-open-use">>
    ELSE IF key = "d" THEN <<"inventory-open-drop">>
    ELSE IF key = "s" THEN <<"save-game">>
    ELSE handlePlayerDeadKeys(key)

handleUpgradeKeys(key) ==
    IF key = "a" THEN <<"upgrade", "hp">>
    ELSE IF key = "b" THEN <<"upgrade", "str">>
    ELSE IF key = "c" THEN <<"upgrade", "def">>
    ELSE NoAction

\* key.charCodeAt(0) - 'a'.charCodeAt(0) is in 0 .. 25 for a lower-case
\* first character only; no other key of Keys starts with one
handleInventoryKeys(action, key) ==
    IF key = "Escape" THEN <<"inventory-close-" \o action>>
    ELSE IF \E slot \in Slots : Letters[slot + 1] = key
         THEN LET slot == CHOOSE slot \in Slots : Letters[slot + 1] = key
                  id == entities[player].inventory[slot]
              IN  IF id # NULL THEN <<"inventory-do-" \o action, id>> ELSE NoAction
    ELSE NoAction

handleCharacterKeys(key) ==
    IF key = "Escape" \/ key = "c" THEN <<"character-close">> ELSE NoAction

\* handleTargetingKeys that hands every other key to the play handler
handleTargetingKeysFallThrough(key) ==
    IF key = "Escape" THEN <<"targeting-cancel">> ELSE handlePlayerKeys(key)

handleTargetingKeys(key) ==
    IF key = "Escape" THEN <<"targeting-cancel">> ELSE NoAction

\* currentKeyHandler()(event.key)
keyAction(key) ==
    IF currentKeyHandler = "targeting" THEN handleTargetingKeys(key)
    ELSE IF currentKeyHandler = "upgrade" THEN handleUpgradeKeys(key)
    ELSE IF currentKeyHandler = "inventory-use" THEN handleInventoryKeys("use", key)
    ELSE IF currentKeyHandler = "inventory-drop" THEN handleInventoryKeys("drop", key)
    ELSE IF currentKeyHandler = "character" THEN handleCharacterKeys(key)
    ELSE IF currentKeyHandler = "dead" THEN handlePlayerDeadKeys(key)
    ELSE handlePlayerKeys(key)

\* handleKeyDown with a key the current handler does not bind: runAction
\* is not called
KeyIgnored(key) ==
    /\ keyAction(key) = NoAction
    /\ Commit(Game, <<"ignored", key>>)
    /\ UNCHANGED <<DEBUG_ALL_EXPLORED, storage, snapshot>>

Directions == {<<1, 0>>, <<-1, 0>>, <<0, 1>>, <<0, -1>>, <<0, 0>>}
Stats == {"hp", "str", "def"}

(***************************************************************************)
(* The game from its start                                                 *)
(***************************************************************************)
Started(g, inputs) ==
    /\ entities = g.entities
    /\ player = g.player
    /\ createEntity_id = g.id
    /\ tileMap = g.tileMap
    /\ messages = g.messages
    /\ rngState = g.rng
    /\ overlay = g.overlay
    /\ fault = g.fault
    /\ confusion = g.confusion
    /\ DEBUG_ALL_EXPLORED = FALSE
    /\ storage = NoSave
    /\ snapshot = NoSave
    /\ last = [action |-> <<"start">>, phases |-> 0, attacks |-> <<>>, atPhase |-> <<>>,
               processed |-> <<>>,
               before |-> [dungeonLevel |-> g.tileMap.dungeonLevel, rng |-> g.rng,
                           hp |-> g.entities[g.player].hp]]
    /\ inputsLeft = inputs

Init == \E seed \in 0 .. RngMod - 1 : Started(newGame(seed), MaxSteps)

Next ==
    \/ \E d \in Directions : Move(d[1], d[2])
    \/ Pickup
    \/ StairsDown
    \/ InventoryOpenUse
    \/ InventoryCloseUse
    \/ \E slot \in Slots : InventoryDoUse(slot)
    \/ InventoryOpenDrop
    \/ InventoryCloseDrop
    \/ \E slot \in Slots : InventoryDoDrop(slot)
    \/ SaveGame
    \/ RestoreGame

Spec == Init /\ [][Next]_vars

(***************************************************************************)
(* Games in progress.  The level is generated as the program generates it  *)
(* (the first at start-up, a deeper one by the descent handler); the       *)
(* player has the stats of earlier level-ups, carries the items picked up  *)
(* on the way, and has walked some steps towards the stairs.               *)
(***************************************************************************)
RECURSIVE outfit(_, _, _)
outfit(g, kit, slot) ==
    IF ~Ok(g) \/ slot >= Len(kit) THEN g
    ELSE outfit(createEntity(g, kit[slot + 1], [carried_by |-> g.player, slot |-> slot],
                             NoProps),
                kit, slot + 1)

\* the stats after the upgrades taken at earlier level-ups
promoted(g, stats) ==
    [g EXCEPT !.entities[g.player] = stats @@ @]

stairsOf(g) ==
    g.entities[CHOOSE i \in DOMAIN g.entities : g.entities[i].type = "stairs"].location

\* one `move` input towards the stairs, along x first
RECURSIVE walked(_, _)
walked(g, n) ==
    IF n = 0 \/ ~Ok(g) \/ ~Alive(g.entities[g.player]) THEN g
    ELSE LET dx == stairsOf(g).x - g.entities[g.player].location.x
             dy == stairsOf(g).y - g.entities[g.player].location.y
         IN  walked(draw(playerMoveBy(g, IF dx # 0 THEN sign(dx) ELSE 0,
                                          IF dx = 0 /\ dy # 0 THEN sign(dy) ELSE 0)),
                    n - 1)

\* the player put on the stairs of the level above
onTheStairs(g) == moveEntityTo(g, g.entities[g.player], stairsOf(g))

reached(seed, loadout) ==
    IF loadout.dungeonLevel = 1 THEN newGame(seed)
    ELSE draw(playerGoDownStairs(onTheStairs(
             draw(print(createTileMap(outfit(promoted(createPlayer(emptyGame(seed)),
                                                      loadout.stats),
                                             loadout.kit, 0),
                                      loadout.dungeonLevel - 1),
                        <<"Hello and welcome, adventurer, to yet another dungeon!">>,
                        "welcome")))))

\* the hp lost in earlier fights on this level
wounded(g, wounds) == [g EXCEPT !.entities[g.player].hp = @ - wounds]

\* the history the walk left is not part of the game in progress
inProgress(seed, loadout) ==
    [walked(wounded(reached(seed, loadout), loadout.wounds), loadout.walk)
        EXCEPT !.phases = 0, !.attacks = <<>>, !.atPhase = <<>>, !.processed = <<>>]

newcomer == [dungeonLevel |-> 1, stats |-> NoProps, kit |-> <<>>, wounds |-> 0, walk |-> 0]

mage ==
    [dungeonLevel |-> 6,
     stats |-> [xp |-> 340],
     kit |-> <<"fireball scroll", "confusion scroll", "lightning scroll",
               "healing potion", "sword">>,
     wounds |-> 0,
     walk |-> 0]

fighter ==
    [dungeonLevel |-> 3,
     stats |-> [level |-> 6, xp |-> 3260, base_power |-> 5, base_defense |-> 5],
     kit |-> <<>>,
     wounds |-> 0,
     walk |-> 0]

hoarder ==
    [dungeonLevel |-> 2,
     stats |-> NoProps,
     kit |-> [slot \in 1 .. INVENTORY_CAPACITY |-> "healing potion"],
     wounds |-> 60,
     walk |-> 3]

apprentice ==
    [dungeonLevel |-> 2, stats |-> NoProps, kit |-> <<"confusion scroll">>,
     wounds |-> 0, walk |-> 0]

\* three hit points left: the next hit, or the player's own fireball, kills
dying ==
    [dungeonLevel |-> 6, stats |-> NoProps, kit |-> <<"fireball scroll">>,
     wounds |-> 97, walk |-> 0]

\* the fighter three moves into a deeper level, fights on the way included
brawler ==
    [dungeonLevel |-> 6, stats |-> fighter.stats, kit |-> <<>>, wounds |-> 0, walk |-> 3]

Loadouts == {newcomer, mage, fighter, hoarder}

InitDelve ==
    \E seed \in 0 .. RngMod - 1 : \E loadout \in Loadouts :
        Started(inProgress(seed, loadout), DelveSteps)

NextDelve ==
    \/ \E d \in Directions : Move(d[1], d[2])
    \/ Pickup
    \/ StairsDown
    \/ InventoryOpenUse
    \/ InventoryCloseUse
    \/ \E slot \in Slots : InventoryDoUse(slot)
    \/ InventoryOpenDrop
    \/ InventoryCloseDrop
    \/ \E slot \in Slots : InventoryDoDrop(slot)
    \/ TargetingCancel
    \/ \E c \in Coords : TargetingClick(c[1], c[2])
    \/ \E stat \in Stats : Upgrade(stat)
    \/ SaveGame
    \/ RestoreGame

SpecDelve == InitDelve /\ [][NextDelve]_vars

(***************************************************************************)
(* A longer run of one confusion scroll and the turns that follow it       *)
(***************************************************************************)
InitConfusion ==
    \E seed \in 0 .. RngMod - 1 : Started(inProgress(seed, apprentice), ConfusionSteps)

\* a monster stands at c
MonsterAt(c) ==
    \E i \in DOMAIN entities :
        "ai" \in DOMAIN entities[i] /\ entities[i].location = [x |-> c[1], y |-> c[2]]

\* the player reads the scroll, aims it at a monster, and walks afterwards
NextConfusion ==
    \/ DOMAIN confusion # {} /\ \E d \in Directions : Move(d[1], d[2])
    \/ InventoryOpenUse
    \/ \E slot \in Slots : InventoryDoUse(slot)
    \/ \E c \in Coords : MonsterAt(c) /\ TargetingClick(c[1], c[2])

SpecConfusion == InitConfusion /\ [][NextConfusion]_vars

(***************************************************************************)
(* Every mode of the input handling: the overlays, the debug toggle and    *)
(* the keys that the current handler does not bind                         *)
(***************************************************************************)
InitModes ==
    \E seed \in 0 .. RngMod - 1 : \E loadout \in {newcomer, mage, dying, brawler} :
        Started(inProgress(seed, loadout), ModesSteps)

NextModes ==
    \/ \E d \in Directions : Move(d[1], d[2])
    \/ Pickup
    \/ StairsDown
    \/ InventoryOpenUse
    \/ InventoryCloseUse
    \/ \E slot \in Slots : InventoryDoUse(slot)
    \/ InventoryOpenDrop
    \/ InventoryCloseDrop
    \/ \E slot \in Slots : InventoryDoDrop(slot)
    \/ CharacterOpen
    \/ CharacterClose
    \/ TargetingCancel
    \/ \E c \in Coords : TargetingClick(c[1], c[2])
    \/ \E stat \in Stats : Upgrade(stat)
    \/ SaveGame
    \/ RestoreGame
    \/ ToggleDebug
    \/ \E key \in Keys : KeyIgnored(key)

SpecModes == InitModes /\ [][NextModes]_vars

(***************************************************************************)
(* The functions gainXp, swapEquipment and moveEntityTo called on their    *)
(* own, on games in progress, with arguments from small sets               *)
(***************************************************************************)
squire ==
    [dungeonLevel |-> 4, stats |-> NoProps,
     kit |-> <<"sword", "shield", "healing potion">>, wounds |-> 0, walk |-> 0]

\* the awards of an orc and of a troll, and six trolls' worth in one grant
XpGrants == {35, 100, 600}

\* gainXp(player, amount)
CallGainXp(amount) ==
    /\ currentKeyHandler = "play"
    /\ Commit(gainXp(Game, player, amount), <<"gainXp", amount>>)
    /\ UNCHANGED <<DEBUG_ALL_EXPLORED, storage, snapshot>>

\* swapEquipment(player, inventory_slot, equipment_slot)
CallSwapEquipment(inventory_slot, equipment_slot) ==
    /\ currentKeyHandler = "play"
    /\ Commit(swapEquipment(Game, player, inventory_slot, equipment_slot),
              <<"swapEquipment", inventory_slot, equipment_slot>>)
    /\ UNCHANGED <<DEBUG_ALL_EXPLORED, storage, snapshot>>

\* moveEntityTo(item, {carried_by: player.id, slot}) and then
\* moveEntityTo(item, the coordinate it came from)
CallMoveEntityToAndBack(item, slot) ==
    /\ currentKeyHandler = "play"
    /\ Truthy(entities[item], "item")
    /\ "x" \in DOMAIN entities[item].location
    /\ entities[item].location # NOWHERE
    /\ entities[player].inventory[slot] = NULL
    /\ Commit(With(moveEntityTo(Game, entities[item], [carried_by |-> player, slot |-> slot]),
                   LAMBDA g1 : moveEntityTo(g1, g1.entities[item], entities[item].location)),
              <<"moveEntityTo-and-back", item, slot>>)
    /\ UNCHANGED <<DEBUG_ALL_EXPLORED, storage, snapshot>>

InitUnits ==
    \E seed \in 0 .. RngMod - 1 : \E loadout \in {squire, mage} :
        Started(inProgress(seed, loadout), UnitsSteps)

NextUnits ==
    \/ \E d \in Directions : Move(d[1], d[2])
    \/ Pickup
    \/ InventoryOpenUse
    \/ \E slot \in Slots : InventoryDoUse(slot)
    \/ \E stat \in Stats : Upgrade(stat)
    \/ \E amount \in XpGrants : CallGainXp(amount)
    \/ \E inventory_slot \in 0 .. MaxSwapSlot : \E equipment_slot \in 0 .. MaxSwapSlot :
            CallSwapEquipment(inventory_slot, equipment_slot)
    \/ \E item \in DOMAIN entities : \E slot \in 0 .. MaxSwapSlot + 3 :
            CallMoveEntityToAndBack(item, slot)

SpecUnits == InitUnits /\ [][NextUnits]_vars

(***************************************************************************)
(* moveEntityTo called on its own with every kind of new location: a       *)
(* carried slot and an equipped slot, empty and occupied, of the player    *)
(* and of a monster (which has no slot arrays), and the player's tile;     *)
(* and playerMoveBy called with steps that end on and off the grid         *)
(***************************************************************************)
MovesSteps == 2

MoveSlots == {0, MaxSwapSlot}

MoveLocations ==
    {[carried_by |-> owner, slot |-> slot] :
        owner \in {id \in DOMAIN entities : "base_power" \in DOMAIN entities[id]},
        slot \in MoveSlots}
    \cup {[equipped_by |-> owner, slot |-> slot] :
        owner \in {id \in DOMAIN entities : "base_power" \in DOMAIN entities[id]},
        slot \in MoveSlots}
    \cup {entities[player].location}

\* moveEntityTo(item, location)
CallMoveEntityTo(item, location) ==
    /\ currentKeyHandler = "play"
    /\ Truthy(entities[item], "item")
    /\ Commit(moveEntityTo(Game, entities[item], location),
              <<"moveEntityTo", item, location>>)
    /\ UNCHANGED <<DEBUG_ALL_EXPLORED, storage, snapshot>>

InitMoves ==
    \E seed \in 0 .. RngMod - 1 : Started(inProgress(seed, squire), MovesSteps)

\* runAction(['move', dx, dy]) is there called with steps of one tile and
\* with strides that leave the grid, where no tile record exists
NextMoves ==
    \/ \E item \in DOMAIN entities : \E location \in MoveLocations :
            CallMoveEntityTo(item, location)
    \/ Pickup
    \/ \E d \in (Directions \ {<<0, 0>>}) \cup {<<0 - WIDTH, 0>>, <<0, HEIGHT>>} :
            Move(d[1], d[2])

SpecMoves == InitMoves /\ [][NextMoves]_vars

(***************************************************************************)
(* Games with a long message log: the player has pressed the stairs and    *)
(* pickup keys away from stairs and items, each press printing a warning   *)
(***************************************************************************)
LogSteps == 3
EarlierLines == 97

\* the log after `lines` more prints: the warnings in order, the oldest
\* lines cut off (pickup warnings at the square line numbers)
longPlayed(g, lines) ==
    LET warnings == [k \in 1 .. lines |->
                        <<IF \E r \in 1 .. k : r * r = k
                          THEN <<"There is nothing here to pick up.">>
                          ELSE <<"There are no stairs here.">>,
                          "warning">>]
        log == g.messages \o warnings
    IN  [g EXCEPT !.messages =
            IF Len(log) > MAX_MESSAGE_LINES
            THEN SubSeq(log, Len(log) - MAX_MESSAGE_LINES + 1, Len(log)) ELSE log]

InitLog ==
    \E seed \in 0 .. RngMod - 1 : \E loadout \in {mage, hoarder} :
        Started(longPlayed(inProgress(seed, loadout), EarlierLines), LogSteps)

SpecLog == InitLog /\ [][NextDelve]_vars

(***************************************************************************)
(* A last stand: three hit points left, fifteen experience points short of *)
(* the second level, one fireball scroll                                   *)
(***************************************************************************)
LastStandSteps == 4

doomed ==
    [dungeonLevel |-> 6, stats |-> [xp |-> 340], kit |-> <<"fireball scroll">>,
     wounds |-> 97, walk |-> 0]

InitLastStand ==
    \E seed \in 0 .. RngMod - 1 : Started(inProgress(seed, doomed), LastStandSteps)

SpecLastStand == InitLastStand /\ [][NextModes]_vars

(***************************************************************************)
(* Properties                                                              *)
(***************************************************************************)
\* the slot `slot` of the array `field` of the stored entity `owner` holds `id`
SlotHolds(owner, field, slot, id) ==
    /\ owner \in DOMAIN entities
    /\ field \in DOMAIN entities[owner]
    /\ slot \in DOMAIN entities[owner][field]
    /\ entities[owner][field][slot] = id

\* C1: in every reachable state locations and slot arrays agree in both
\* directions: an entity is located {carried_by: o, slot: s} exactly when
\* entities[o].inventory[s] is its id, and {equipped_by: o, slot: s} exactly
\* when entities[o].equipment[s] is its id; every non-null slot entry names
\* an entity of the store.
SlotsAgreeWithLocations ==
    \A i \in DOMAIN entities :
        LET e == entities[i]
        IN  /\ "carried_by" \in DOMAIN e.location
                => SlotHolds(e.location.carried_by, "inventory", e.location.slot, i)
            /\ "equipped_by" \in DOMAIN e.location
                => SlotHolds(e.location.equipped_by, "equipment", e.location.slot, i)
            /\ "inventory" \in DOMAIN e
                => \A slot \in DOMAIN e.inventory :
                      e.inventory[slot] # NULL
                        => /\ e.inventory[slot] \in DOMAIN entities
                           /\ entities[e.inventory[slot]].location
                                = [carried_by |-> i, slot |-> slot]
            /\ "equipment" \in DOMAIN e
                => \A slot \in DOMAIN e.equipment :
                      e.equipment[slot] # NULL
                        => /\ e.equipment[slot] \in DOMAIN entities
                           /\ entities[e.equipment[slot]].location
                                = [equipped_by |-> i, slot |-> slot]

\* an item has just been dropped on the map while others stay carried and equipped
SlotsAgreeAfterDrop ==
    /\ last.action[1] = "inventory-do-drop"
    /\ OnMap(entities[last.action[2]])
    /\ entities[last.action[2]].location.x >= 0
    /\ \E slot \in Slots : entities[player].inventory[slot] # NULL
    /\ \E slot \in Slots : entities[player].equipment[slot] # NULL

\* C2: a restore puts back the entity store, the player reference, the
\* tiles with their explored flags, the dungeon level, the message log, the
\* next-id counter and the RNG state exactly as they were at save time,
\* whatever happened in between; the handlers being functions of this
\* state, the same inputs then give the same draws and the same states.
RestoreGivesSavedState ==
    last.action = <<"restore-game", TRUE>>
        => /\ entities = snapshot.entities
           /\ player = snapshot.player
           /\ tileMap = snapshot.tileMap
           /\ messages = snapshot.messages
           /\ createEntity_id = snapshot.id
           /\ rngState = snapshot.rng

\* a restore has just undone a descent, with its new entities and its draws
RestoredAcrossDescent ==
    /\ last.action = <<"restore-game", TRUE>>
    /\ last.before.dungeonLevel = tileMap.dungeonLevel + 1
    /\ last.before.rng # rngState

\* C3: an attack lowers the defender's hp by exactly
\* max(0, effective_power - effective_defense): nothing when the power does
\* not exceed the defense, the difference once when it does, and the
\* defender dies only when its hp reaches 0 or less.
AttackDamage ==
    \A k \in 1 .. Len(last.attacks) :
        LET made == last.attacks[k]
        IN  /\ made.after = made.before - Max(0, made.power - made.defense)
            /\ made.power - made.defense <= 0 => made.after = made.before /\ ~made.died
            /\ made.died <=> made.after <= 0

\* power 5 against defense 0 has taken hp 10 to 5 without a death, and an
\* attack whose power is below the defense has been made
AttackExamples ==
    /\ \E k \in 1 .. Len(last.attacks) :
          LET made == last.attacks[k]
          IN  made.power = 5 /\ made.defense = 0 /\ made.before = 10
              /\ made.after = 5 /\ ~made.died
    /\ \E k \in 1 .. Len(last.attacks) :
          last.attacks[k].power < last.attacks[k].defense

\* the monsters that an enemy phase found out of the player's light
UnlitAtPhase ==
    {i \in DOMAIN last.atPhase :
        LET e == last.atPhase[i]
        IN  /\ "ai" \in DOMAIN e /\ e.ai.behavior = "move_to_player"
            /\ Alive(e) /\ OnMap(e)
            /\ ~Lit(fovCompute(tileMap._values,
                               <<last.atPhase[player].location.x,
                                 last.atPhase[player].location.y>>),
                    e.location)}

\* C4: a move_to_player monster whose tile is not lit in the light map
\* computed from the player's position at the start of an enemy phase
\* neither changes location nor attacks during that phase.
UnlitMonstersStay ==
    last.phases > 0
        => \A i \in UnlitAtPhase :
              /\ entities[i].location = last.atPhase[i].location
              /\ \A k \in 1 .. Len(last.attacks) : last.attacks[k].attacker # i

\* an enemy phase has run with one monster in the dark and another, lit, that moved
UnlitMonsterPassedOver ==
    /\ last.phases > 0
    /\ UnlitAtPhase # {}
    /\ \E i \in DOMAIN last.atPhase \ UnlitAtPhase :
          /\ "ai" \in DOMAIN last.atPhase[i]
          /\ entities[i].location # last.atPhase[i].location

\* C5: a monster that stays alive after confusion is applied to it is
\* confused through the first 9 enemy phases that follow (the one run by
\* the scroll use being the first), its counter going down by one in each,
\* and is back to move_to_player from the 10th on, with exactly one
\* recovery message emitted, in that 10th phase.
ConfusionLastsNinePhases ==
    \A i \in DOMAIN confusion :
        (i \in DOMAIN entities /\ Alive(entities[i]))
            => LET n == confusion[i].phases
               IN  /\ n \in 1 .. 9
                        => /\ entities[i].ai = [behavior |-> "confused", turns |-> 10 - n]
                           /\ confusion[i].recoveries = 0
                   /\ n >= 10
                        => /\ entities[i].ai = [behavior |-> "move_to_player"]
                           /\ confusion[i].recoveries = 1

\* the 10th enemy phase after a confusion has just run and ended it
ConfusionJustEnded ==
    /\ last.phases = 1
    /\ \E i \in DOMAIN confusion :
          /\ i \in DOMAIN entities /\ Alive(entities[i])
          /\ confusion[i].phases = 10
          /\ confusion[i].recoveries = 1
          /\ Len(SelectSeq(messages, LAMBDA m : m[1][1] = "is no longer confused")) = 1

\* the click of the input just handled
ClickAt == [x |-> last'.action[2], y |-> last'.action[3]]

\* the tile (x, y) is lit for the player
LitForPlayer(at) ==
    Lit(fovCompute(tileMap._values,
                   <<entities[player].location.x, entities[player].location.y>>), at)

\* entity i is among those the claim says a fireball at `at` burns
InBlast(i, at) ==
    LET e == entities[i]
    IN  /\ "hp" \in DOMAIN e /\ Alive(e) /\ OnMap(e)
        /\ LitForPlayer(e.location)
        /\ Lit(fovCompute(tileMap._values, <<at.x, at.y>>), e.location)
        /\ distanceSq(e.location, at) <= 9

IsCorpse(e) == e.type = "corpse" /\ ~Alive(e) /\ "ai" \notin DOMAIN e

\* a click casts the fireball at a tile lit for the caster
FireballCast ==
    /\ last'.action[1] = "click"
    /\ overlay.targeting /\ overlay.callback.spell = "fireball"
    /\ LitForPlayer(ClickAt)

\* C6: a fireball cast at a tile lit for the caster takes exactly 25 hp from
\* every live on-map entity with hp whose tile is lit both from the caster
\* and from the target and lies within distance 3 of the target, makes a
\* corpse of each one brought to 0 or less, and leaves every other
\* entity's hp as it was.
FireballBurnsWithinRange ==
    [][FireballCast
        => \A i \in DOMAIN entities :
              "hp" \in DOMAIN entities[i]
                => LET after == last'.atPhase[i]
                       burned == InBlast(i, ClickAt)
                   IN  /\ after.hp = entities[i].hp - (IF burned THEN 25 ELSE 0)
                       /\ burned /\ entities[i].hp <= 25 => IsCorpse(after)
                       /\ ~(burned /\ entities[i].hp <= 25) => after.type = entities[i].type
      ]_vars

\* a fireball has killed one monster and hurt another while a third, lit
\* from both ends but further than 3 from the point, kept its hp
FireballSparedTheDistant ==
    /\ last.action[1] = "click"
    /\ overlay.callback.spell = "fireball"
    /\ last.phases = 1
    /\ \E i \in DOMAIN last.atPhase : IsCorpse(last.atPhase[i]) /\ last.atPhase[i].hp > -25
    /\ \E i \in DOMAIN last.atPhase :
          LET e == last.atPhase[i]
          IN  /\ "ai" \in DOMAIN e /\ e.hp = e.base_max_hp
              /\ distanceSq(e.location, [x |-> last.action[2], y |-> last.action[3]]) > 9
              /\ Lit(fovCompute(tileMap._values, <<last.action[2], last.action[3]>>),
                     e.location)
              /\ Lit(fovCompute(tileMap._values,
                                <<last.atPhase[player].location.x,
                                  last.atPhase[player].location.y>>), e.location)

\* the handler added exactly one message, of the given class
OneMessage(className) ==
    /\ Len(messages') = Len(messages) + 1
    /\ SubSeq(messages', 1, Len(messages)) = messages
    /\ messages'[Len(messages')][2] = className

InventoryFull == \A slot \in Slots : entities[player].inventory[slot] # NULL

ItemsHere ==
    {i \in DOMAIN entities :
        /\ entities[i].location = entities[player].location
        /\ Truthy(entities[i], "item")}

\* C7: a pickup attempted with all 26 slots occupied, or with no item on the
\* player's tile, leaves every entity (the item's location and the
\* inventory array among them) and the RNG state unchanged, emits a
\* warning and runs no enemy phase.
RefusedPickupChangesNothing ==
    [][(last'.action = <<"pickup">> /\ (InventoryFull \/ ItemsHere = {}))
        => /\ entities' = entities
           /\ rngState' = rngState
           /\ createEntity_id' = createEntity_id
           /\ tileMap' = tileMap
           /\ OneMessage("warning")
           /\ last'.phases = 0
      ]_vars

\* a pickup has been refused with an item on the tile and 26 items carried
PickupRefusedWhenFull ==
    /\ last.action = <<"pickup">>
    /\ last.phases = 0
    /\ InventoryFull
    /\ ItemsHere # {}

\* a use of the item in `last'.action[2]` that the claim calls failed
UsedType == entities[last'.action[2]].type

NoLightningTarget ==
    ~\E i \in DOMAIN entities :
        LET e == entities[i]
        IN  /\ i # player
            /\ "hp" \in DOMAIN e /\ Alive(e) /\ OnMap(e)
            /\ LitForPlayer(e.location)
            /\ distanceSq(e.location, entities[player].location) <= 25

NoConfusionTarget(at) ==
    ~\E i \in DOMAIN entities :
        LET e == entities[i]
        IN  /\ e.location = at
            /\ Truthy(e, "blocks")
            /\ "hp" \in DOMAIN e /\ Alive(e) /\ "ai" \in DOMAIN e

FailedUseUntargeted ==
    /\ last'.action[1] = "inventory-do-use"
    /\ \/ /\ UsedType = "healing potion"
          /\ entities[player].hp = effective_max_hp(entities, entities[player])
       \/ /\ UsedType = "lightning scroll"
          /\ NoLightningTarget

FailedUseOutOfView ==
    /\ last'.action[1] = "click"
    /\ overlay.targeting
    /\ overlay.callback.spell \in {"fireball", "confusion"}
    /\ ~LitForPlayer(ClickAt)

FailedUseNoTarget ==
    /\ last'.action[1] = "click"
    /\ overlay.targeting
    /\ overlay.callback.spell = "confusion"
    /\ LitForPlayer(ClickAt)
    /\ NoConfusionTarget(ClickAt)

\* the item of the use is where it was, and nothing else changed either
NothingButAMessage ==
    /\ entities' = entities
    /\ tileMap' = tileMap
    /\ rngState' = rngState
    /\ Len(messages') = Len(messages) + 1
    /\ SubSeq(messages', 1, Len(messages)) = messages
    /\ messages'[Len(messages')][2] \in {"warning", "error"}
    /\ last'.phases = 0

\* C8: a failed or no-op item use (potion at full health, lightning with no
\* target, fireball or confusion aimed out of view, confusion aimed at a lit
\* tile with no live AI-bearing blocker) leaves the item in its slot,
\* changes no entity field, no tile record (explored flags included) and no
\* RNG state, reports the failure and runs no enemy phase.
FailedUseChangesNothing ==
    [][(FailedUseUntargeted \/ FailedUseOutOfView \/ FailedUseNoTarget)
        => NothingButAMessage]_vars

\* the part of C8 that the code keeps: every failed use other than a
\* confusion aimed at a lit tile without a target changes nothing
FailedUseElsewhereChangesNothing ==
    [][(FailedUseUntargeted \/ FailedUseOutOfView) => NothingButAMessage]_vars

\* a confusion aimed at a lit tile without a target changes nothing but
\* explored flags
MissedConfusionOnlyExplores ==
    [][FailedUseNoTarget
        => /\ entities' = entities
           /\ rngState' = rngState
           /\ last'.phases = 0
           /\ OneMessage("warning")
           /\ \A c \in DOMAIN tileMap._values :
                 /\ tileMap'._values[c].walkable = tileMap._values[c].walkable
                 /\ tileMap._values[c].explored => tileMap'._values[c].explored
      ]_vars

\* a descent: the input is stairs-down and a stairs entity is on the player's tile
StairsHere ==
    \E i \in DOMAIN entities :
        /\ entities[i].location = entities[player].location
        /\ Truthy(entities[i], "stairs")

Descent == last'.action = <<"stairs-down">> /\ StairsHere

\* C9: after a descent the store holds the player, exactly the items the
\* player carried or had equipped (same ids, types and slots), and
\* otherwise only entities created by the new level's generation; every
\* monster, corpse, floor item, stairs and used-up item of the previous
\* level is gone.
DescentKeepsOnlyBelongings ==
    [][Descent
        => /\ player' = player
           /\ player \in DOMAIN entities'
           /\ \A i \in DOMAIN entities \ {player} :
                 IF OnMap(entities[i])
                 THEN i \notin DOMAIN entities'
                 ELSE i \in DOMAIN entities' /\ entities'[i] = entities[i]
           /\ \A i \in DOMAIN entities' \ DOMAIN entities :
                 /\ i > createEntity_id
                 /\ OnMap(entities'[i])
           /\ entities'[player].inventory = entities[player].inventory
           /\ entities'[player].equipment = entities[player].equipment
      ]_vars

\* a descent has been made with carried and equipped items, leaving
\* monsters and floor items behind and finding new ones
DescendedWithBelongings ==
    /\ last.action = <<"stairs-down">>
    /\ last.before.dungeonLevel + 1 = tileMap.dungeonLevel
    /\ \E slot \in Slots : entities[player].inventory[slot] # NULL
    /\ \E slot \in Slots : entities[player].equipment[slot] # NULL
    /\ \E i \in DOMAIN entities : "ai" \in DOMAIN entities[i]
    /\ \E i \in 1 .. createEntity_id : i \notin DOMAIN entities

\* C10: the descend input changes nothing but the message log (a warning)
\* when no stairs entity is on the player's tile; otherwise the dungeon level
\* becomes the old level + 1, the player stands at the centre of the new
\* map's first room, its hp becomes
\* min(hp + floor(effective_max_hp / 2), effective_max_hp), and its xp,
\* level and base stats are unchanged.
DescentEffect ==
    [][last'.action = <<"stairs-down">>
        => IF StairsHere
           THEN LET before == entities[player]
                    after == entities'[player]
                    max_hp == effective_max_hp(entities, before)
                IN  /\ tileMap'.dungeonLevel = tileMap.dungeonLevel + 1
                    /\ after.location = getCenter(tileMap'.rooms[1])
                    /\ after.hp = Min(before.hp + (max_hp \div 2), max_hp)
                    /\ after.xp = before.xp
                    /\ after.level = before.level
                    /\ after.base_max_hp = before.base_max_hp
                    /\ after.base_power = before.base_power
                    /\ after.base_defense = before.base_defense
           ELSE /\ entities' = entities
                /\ tileMap' = tileMap
                /\ rngState' = rngState
                /\ createEntity_id' = createEntity_id
                /\ OneMessage("warning")
                /\ last'.phases = 0
      ]_vars

\* a wounded player has descended and been healed, short of its maximum
DescendedAndHealed ==
    /\ last.action = <<"stairs-down">>
    /\ last.before.dungeonLevel + 1 = tileMap.dungeonLevel
    /\ last.before.hp < entities[player].hp
    /\ entities[player].hp < effective_max_hp(entities, entities[player])
    /\ entities[player].location = getCenter(tileMap.rooms[1])

\* C11: a descent made on the stairs is followed, within the same input,
\* by one enemy phase over the monsters of the new level.
DescentRunsEnemyPhase ==
    [][Descent => last'.phases = 1]_vars

\* the input just handled is a world action that the claim lists: a move
\* onto a walkable tile (a wait or a bump included), a pickup of an item
\* with a free slot, a drop, a use that consumes the item or swaps
\* equipment, or a click that casts the pending spell
WorldAction ==
    \/ /\ last'.action[1] = "move"
       /\ LET to == <<entities[player].location.x + last'.action[2],
                      entities[player].location.y + last'.action[3]>>
          IN  to \in DOMAIN tileMap._values /\ tileMap._values[to].walkable
    \/ /\ last'.action = <<"pickup">>
       /\ ItemsHere # {}
       /\ ~InventoryFull
    \/ last'.action[1] = "inventory-do-drop"
    \/ /\ last'.action[1] = "inventory-do-use"
       /\ \/ /\ UsedType = "healing potion"
             /\ entities[player].hp # effective_max_hp(entities, entities[player])
          \/ /\ UsedType = "lightning scroll"
             /\ ~NoLightningTarget
          \/ HasProp(entities[last'.action[2]], "equipment_slot")
    \/ /\ last'.action[1] = "click"
       /\ overlay.targeting
       /\ LitForPlayer(ClickAt)
       /\ \/ overlay.callback.spell = "fireball"
          \/ overlay.callback.spell = "confusion" /\ ~NoConfusionTarget(ClickAt)

\* the monsters a phase has to process, in store iteration order
MonstersOf(ents) ==
    SelectSeq(EntityIds(ents),
              LAMBDA i : Alive(ents[i]) /\ OnMap(ents[i]) /\ "ai" \in DOMAIN ents[i])

\* C12: every world action (move onto a walkable tile, wait, bump attack,
\* successful pickup, drop, consuming use, equipment swap, cast) runs
\* exactly one enemy phase within its input, and that phase processes the
\* live on-map entities with ai once each, in store iteration order.
OnePhasePerWorldAction ==
    [][WorldAction
        => /\ fault' = NoFault
           /\ last'.phases = 1
           /\ last'.processed = MonstersOf(last'.atPhase)
           /\ \A a, b \in 1 .. Len(last'.processed) :
                 a < b => last'.processed[a] < last'.processed[b]
      ]_vars

\* a bump attack has been followed by a phase that processed two monsters
PhaseAfterBump ==
    /\ last.action[1] = "move"
    /\ last.phases = 1
    /\ last.attacks # <<>>
    /\ last.attacks[1].attacker = player
    /\ Len(last.processed) >= 2

\* the input just handled only shows or hides an overlay, saves the game or
\* toggles the exploration-debug flag
UiAction ==
    last'.action[1] \in
        {"inventory-open-use", "inventory-close-use", "inventory-open-drop",
         "inventory-close-drop", "character-open", "character-close",
         "targeting-cancel", "save-game", "toggle-debug"}

\* C13: opening or closing the inventory-use, inventory-drop or character
\* overlay, cancelling targeting, saving and toggling the debug flag leave
\* every entity, the tile records, the message log and the RNG state
\* unchanged and run no enemy phase.
UiActionsChangeNoWorld ==
    [][UiAction
        => /\ entities' = entities
           /\ player' = player
           /\ createEntity_id' = createEntity_id
           /\ tileMap' = tileMap
           /\ messages' = messages
           /\ rngState' = rngState
           /\ last'.phases = 0
           /\ fault' = NoFault
      ]_vars

\* the debug flag has been switched on and drawn with tiles still unexplored
DebugShownUnexplored ==
    /\ last.action = <<"toggle-debug">>
    /\ DEBUG_ALL_EXPLORED
    /\ \E c \in DOMAIN tileMap._values : ~tileMap._values[c].explored
    /\ \E i \in DOMAIN entities : "ai" \in DOMAIN entities[i]

\* the input just handled raised the player's level
LevelUp ==
    /\ last'.action[1] # "restore-game"
    /\ entities'[player].level > entities[player].level

\* an enemy phase of the input just handled started after the level was raised
PhaseAfterLevelUp ==
    /\ last'.phases > 0
    /\ last'.atPhase[player].level > entities[player].level

\* C14: from the level increment until the player picks an upgrade, no
\* enemy phase runs and no further player world action is applied: the
\* handler that raised the level runs no enemy phase after raising it, and
\* while the choice is pending only the choice is accepted.
UpgradeBlocksGameplay ==
    [][/\ LevelUp => ~PhaseAfterLevelUp
       /\ overlay.upgrade => last'.action[1] \in {"upgrade", "ignored"}
      ]_vars

\* the part of C14 that the code keeps: while the choice is pending no
\* input but the choice is accepted
PendingUpgradeAcceptsOnlyTheChoice ==
    [][overlay.upgrade => last'.action[1] \in {"upgrade", "ignored"}]_vars

\* the stat upgrades the player has taken: 20 hp, 1 power or 1 defense each
\* above the stats it was created with
UpgradesApplied(e) ==
    (e.base_max_hp - 100) \div 20 + (e.base_power - 4) + (e.base_defense - 1)

\* the upgrade just chosen changed exactly one base stat, by the stated amount
OneStatRaised ==
    LET before == entities[player]
        after == entities'[player]
        d_hp == after.base_max_hp - before.base_max_hp
        d_str == after.base_power - before.base_power
        d_def == after.base_defense - before.base_defense
    IN  /\ <<d_hp, d_str, d_def>> \in {<<20, 0, 0>>, <<0, 1, 0>>, <<0, 0, 1>>}
        /\ after.hp - before.hp = d_hp

\* C15: whenever no upgrade choice is pending the player has taken
\* level - 1 stat upgrades, also after several levels gained in one action,
\* and each choice raises exactly one of base_max_hp (by 20, with hp),
\* base_power (by 1) and base_defense (by 1).
OneUpgradePerLevel ==
    [][/\ ~overlay'.upgrade
          => UpgradesApplied(entities'[player]) = entities'[player].level - 1
       /\ last'.action[1] = "upgrade" => OneStatRaised
      ]_vars

\* the messages that the input just handled added, when none was dropped
NewMessages == SubSeq(messages', Len(messages) + 1, Len(messages'))

\* the number of times the pending spell was cast by the input just handled
CastsMade ==
    Len(SelectSeq(NewMessages,
                  LAMBDA m : m[1][1] \in {"The fireball explodes", "The eyes look vacant"}))

\* C16: while a targeting selection is pending every key but Escape is
\* ignored, so the only inputs taken are a click on a tile and the cancel;
\* an ignored key changes nothing; a click casts the pending spell at most
\* once and ends the targeting mode whether or not the cast succeeded.
TargetingTakesOnlyClickAndCancel ==
    [][overlay.targeting
        => /\ \A key \in Keys \ {"Escape"} : keyAction(key) = NoAction
           /\ keyAction("Escape") = <<"targeting-cancel">>
           /\ last'.action[1] \in {"click", "targeting-cancel", "ignored"}
           /\ last'.action[1] = "ignored"
                 => /\ entities' = entities
                    /\ tileMap' = tileMap
                    /\ messages' = messages
                    /\ rngState' = rngState
                    /\ overlay' = overlay
           /\ last'.action[1] = "click"
                 => /\ ~overlay'.targeting
                    /\ CastsMade <= 1
                    /\ last'.phases <= 1
                    /\ last'.phases = CastsMade
      ]_vars

\* a click that failed to cast has ended the targeting mode
FailedClickEndedTargeting ==
    /\ last.action[1] = "click"
    /\ last.phases = 0
    /\ ~overlay.targeting
    /\ \E slot \in Slots :
          /\ entities[player].inventory[slot] # NULL
          /\ entities[entities[player].inventory[slot]].type = "fireball scroll"

\* the actions that close an overlay without choosing anything
CancelActions ==
    {<<"targeting-cancel">>, <<"inventory-close-use">>, <<"inventory-close-drop">>,
     <<"character-close">>, <<"upgrade-cancel">>}

\* the input just handled was a cancel, and it led back to the idle mode
\* changing nothing in the world
CancelledToIdle ==
    /\ currentKeyHandler' \in {"play", "dead"}
    /\ entities' = entities
    /\ tileMap' = tileMap
    /\ rngState' = rngState
    /\ messages' = messages
    /\ last'.phases = 0

\* C17: each of the targeting, inventory-use, inventory-drop, character and
\* upgrade modes has a cancel input; a cancel returns to the idle mode with
\* no entity, tile or RNG change and no enemy phase, and discards the
\* pending targeting callback.
EveryOverlayCancels ==
    [][/\ currentKeyHandler \in {"targeting", "inventory-use", "inventory-drop",
                                 "character", "upgrade"}
          => \E key \in Keys : keyAction(key) \in CancelActions
       /\ last'.action \in CancelActions
          => CancelledToIdle /\ overlay'.callback = noOverlay.callback
      ]_vars

\* the part of C17 that the code keeps: the targeting, inventory and
\* character modes have a cancel key, and a cancel leads back to the idle
\* mode and changes nothing in the world
FourOverlaysCancel ==
    [][/\ currentKeyHandler \in {"targeting", "inventory-use", "inventory-drop", "character"}
          => \E key \in Keys : keyAction(key) \in CancelActions
       /\ last'.action \in CancelActions => CancelledToIdle
      ]_vars

\* the upgrade mode binds no key to anything but the three upgrades
UpgradeHasNoCancel ==
    [][overlay.upgrade /\ ~overlay.targeting
        => \A key \in Keys : keyAction(key) = NoAction \/ keyAction(key)[1] = "upgrade"]_vars

\* the entities after the item `held` of inventory slot i and the item
\* `worn` of equipment slot e have changed places
Swapped(ents, i, e) ==
    LET held == ents[player].inventory[i]
        worn == ents[player].equipment[e]
    IN  [ents EXCEPT ![player].inventory[i] = worn,
                     ![player].equipment[e] = held,
                     ![held].location = [equipped_by |-> player, slot |-> e],
                     ![worn].location = [carried_by |-> player, slot |-> i]]

\* swapEquipment(player, i, e) has what it asks for: both slots hold an
\* item and the held item is equippable in slot e
SwapAllowed(i, e) ==
    LET held == entities[player].inventory[i]
        worn == entities[player].equipment[e]
    IN  /\ held # NULL
        /\ worn # NULL
        /\ HasProp(entities[held], "equipment_slot")
        /\ PropOf(entities[held], "equipment_slot") = e

\* the input just handled used an equippable item of the inventory
UsedEquippable ==
    /\ last'.action[1] = "inventory-do-use"
    /\ HasProp(entities[last'.action[2]], "equipment_slot")

\* C18: the swap of the item in inventory slot i with the item in the
\* equipment slot of its type exchanges the two slot entries and the two
\* locations and touches nothing else; swapEquipment is refused with a
\* fault, changing nothing, when a slot is empty, the held item is not
\* equippable or its slot differs from the target slot.  A use of the item
\* from the inventory makes the same exchange of slots and items, and then
\* runs the enemy phase of a world action.
SwapExchangesSlots ==
    [][/\ last'.action[1] = "swapEquipment"
          => /\ IF SwapAllowed(last'.action[2], last'.action[3])
                THEN /\ entities' = Swapped(entities, last'.action[2], last'.action[3])
                     /\ fault' = NoFault
                ELSE /\ entities' = entities
                     /\ fault' # NoFault
             /\ tileMap' = tileMap
             /\ rngState' = rngState
             /\ messages' = messages
       /\ UsedEquippable
          => LET id == last'.action[2]
                 i == entities[id].location.slot
                 e == PropOf(entities[id], "equipment_slot")
                 swapped == Swapped(entities, i, e)
             IN  /\ fault' = NoFault
                 /\ entities'[player].inventory = swapped[player].inventory
                 /\ entities'[player].equipment = swapped[player].equipment
                 /\ \A k \in DOMAIN entities :
                       Truthy(entities[k], "item") => entities'[k] = swapped[k]
      ]_vars

\* swapEquipment has put the shield on and the towel in the shield's slot
ShieldSwappedIn ==
    /\ last.action = <<"swapEquipment", 1, EQUIP_OFF_HAND>>
    /\ fault = NoFault
    /\ entities[entities[player].equipment[EQUIP_OFF_HAND]].type = "shield"
    /\ entities[entities[player].inventory[1]].type = "towel"
    /\ entities[entities[player].inventory[1]].location = [carried_by |-> player, slot |-> 1]

\* what an item adds to `field`: its type's value, or 0 when it has none
BonusOf(item, field) == IF HasProp(item, field) THEN PropOf(item, field) ELSE 0

\* the sum of BonusOf over a set of item ids
RECURSIVE BonusOver(_, _, _)
BonusOver(ents, ids, field) ==
    IF ids = {} THEN 0
    ELSE LET id == CHOOSE id \in ids : TRUE
         IN  BonusOf(ents[id], field) + BonusOver(ents, ids \ {id}, field)

\* the items in the equipment slots of e; none for an entity without slots
EquippedItems(e) ==
    IF "equipment" \in DOMAIN e
    THEN {e.equipment[slot] : slot \in DOMAIN e.equipment} \ {NULL}
    ELSE {}

\* every entity with stats has base + bonuses of its equipped items
DerivedStatsAreBasePlusBonuses ==
    \A id \in DOMAIN entities :
        LET e == entities[id]
        IN  "base_power" \in DOMAIN e
            => /\ effective_power(entities, e)
                    = e.base_power + BonusOver(entities, EquippedItems(e), "bonus_power")
               /\ effective_defense(entities, e)
                    = e.base_defense + BonusOver(entities, EquippedItems(e), "bonus_defense")
               /\ effective_max_hp(entities, e)
                    = e.base_max_hp + BonusOver(entities, EquippedItems(e), "bonus_max_hp")

\* the player's derived values move from `held` coming in for `worn`
\* by the difference of the two bonuses, and no base stat, xp or level moves
SwapMovesDerivedStatsOnly(held, worn) ==
    LET before == entities[player]
        after == entities'[player]
    IN  /\ effective_power(entities', after) - effective_power(entities, before)
             = BonusOf(entities[held], "bonus_power") - BonusOf(entities[worn], "bonus_power")
        /\ effective_defense(entities', after) - effective_defense(entities, before)
             = BonusOf(entities[held], "bonus_defense") - BonusOf(entities[worn], "bonus_defense")
        /\ effective_max_hp(entities', after) - effective_max_hp(entities, before)
             = BonusOf(entities[held], "bonus_max_hp") - BonusOf(entities[worn], "bonus_max_hp")
        /\ after.base_power = before.base_power
        /\ after.base_defense = before.base_defense
        /\ after.base_max_hp = before.base_max_hp
        /\ after.xp = before.xp
        /\ after.level = before.level

\* C19: in every state every entity's effective power, defense and max hp
\* are its base value plus the sum of the bonuses of the items in its
\* equipment slots (0 without equipment); an equip swap changes the derived
\* values by exactly the difference of the two items' bonuses and changes
\* no base stat, hp, xp or level (after a use from the inventory, hp only
\* by the attacks of the enemy phase that follows).
EffectiveStatsFollowEquipment ==
    /\ []DerivedStatsAreBasePlusBonuses
    /\ [][/\ (/\ last'.action[1] = "swapEquipment"
              /\ SwapAllowed(last'.action[2], last'.action[3]))
             => /\ SwapMovesDerivedStatsOnly(
                       entities[player].inventory[last'.action[2]],
                       entities[player].equipment[last'.action[3]])
                /\ entities'[player].hp = entities[player].hp
          /\ UsedEquippable
             => /\ SwapMovesDerivedStatsOnly(
                       last'.action[2],
                       entities[player].equipment[
                           PropOf(entities[last'.action[2]], "equipment_slot")])
                /\ last'.attacks = <<>> => entities'[player].hp = entities[player].hp
         ]_vars

\* the sword and the shield are both on after swaps: power 4 + 3, defense 1 + 1
SwordAndShieldOn ==
    /\ last.action[1] \in {"swapEquipment", "inventory-do-use"}
    /\ fault = NoFault
    /\ entities[entities[player].equipment[EQUIP_MAIN_HAND]].type = "sword"
    /\ entities[entities[player].equipment[EQUIP_OFF_HAND]].type = "shield"
    /\ effective_power(entities, entities[player]) = entities[player].base_power + 3
    /\ effective_defense(entities, entities[player]) = entities[player].base_defense + 1

\* C20: moving an on-map item into an empty carried slot of an owner with
\* moveEntityTo and then back to the coordinate it came from leaves the
\* owner's inventory and equipment arrays equal, entry for entry, to what
\* they were before the two moves, and the item at its original coordinate.
MoveThereAndBackRestores ==
    [][last'.action[1] = "moveEntityTo-and-back"
       => /\ fault' = NoFault
          /\ entities'[player].inventory = entities[player].inventory
          /\ entities'[player].equipment = entities[player].equipment
          /\ entities'[last'.action[2]].location = entities[last'.action[2]].location
      ]_vars

\* an item lying on the map has just been through a carried slot and back
ItemBackOnTheMap ==
    /\ last.action[1] = "moveEntityTo-and-back"
    /\ fault = NoFault
    /\ OnMap(entities[last.action[2]])
    /\ entities[player].inventory[last.action[3]] = NULL
    /\ \E slot \in Slots : entities[player].inventory[slot] # NULL

\* the input just handled was moveEntityTo(item, location) with a new
\* location of the given kind ("carried_by" or "equipped_by") at an owner
\* that has slot arrays
MovedToSlotOf(kind) ==
    /\ last'.action[1] = "moveEntityTo"
    /\ kind \in DOMAIN last'.action[3]
    /\ "inventory" \in DOMAIN entities[last'.action[3][kind]]

\* C21: moveEntityTo with a new location that is an equipped slot requires
\* the owner's equipment slot to be empty, failing otherwise, and fills the
\* slot with the moved entity's id, as it does for a carried slot.
EquippedSlotCheckedAndFilled ==
    [][MovedToSlotOf("equipped_by")
       => LET item == last'.action[2]
              owner == last'.action[3].equipped_by
              slot == last'.action[3].slot
          IN  IF entities[owner].equipment[slot] = NULL
              THEN fault' = NoFault => entities'[owner].equipment[slot] = item
              ELSE fault' # NoFault
      ]_vars

\* what moveEntityTo does for a carried slot: an occupied one is refused,
\* an empty one holds the entity's id after a move that did not fail
CarriedSlotCheckedAndFilled ==
    [][MovedToSlotOf("carried_by")
       => LET item == last'.action[2]
              owner == last'.action[3].carried_by
              slot == last'.action[3].slot
              leaves == "carried_by" \in DOMAIN entities[item].location
                        /\ entities[item].location = last'.action[3]
                        /\ entities[owner].inventory[slot] = item
          IN  IF entities[owner].inventory[slot] = NULL \/ leaves
              THEN fault' = NoFault => entities'[owner].inventory[slot] = item
              ELSE fault' # NoFault
      ]_vars

\* what moveEntityTo does for an equipped slot: it sets the location and
\* neither reads nor writes the equipment array
EquippedSlotNeverTouched ==
    [][MovedToSlotOf("equipped_by")
       => /\ entities'[last'.action[3].equipped_by].equipment
               = entities[last'.action[3].equipped_by].equipment
          /\ fault' = NoFault => entities'[last'.action[2]].location = last'.action[3]
      ]_vars

LeavesWrongSlot(item) ==
    /\ "carried_by" \in DOMAIN entities[item].location
    /\ LET owner == entities[item].location.carried_by
           slot == entities[item].location.slot
       IN  \/ "inventory" \notin DOMAIN entities[owner]
           \/ entities[owner].inventory[slot] # item

\* a failure of the first stage, which comes before every write, changes
\* nothing; a failure of the second stage comes after the location is set
\* and the old slot is cleared, and leaves both as written
FailedMoveKeepsFirstStage ==
    [][(last'.action[1] = "moveEntityTo" /\ fault' # NoFault)
       => LET item == last'.action[2]
          IN  IF LeavesWrongSlot(item)
              THEN entities' = entities
              ELSE /\ entities'[item].location = last'.action[3]
                   /\ entities' # entities
      ]_vars

\* C23: in every reachable state (after generation, player moves, monster
\* moves, deaths, descents and loads) no map tile holds more than one
\* blocking entity, and blockingEntityAt never raises its
\* more-than-one-blocker fault.
NoTileDoublyBlocked ==
    /\ \A c \in Coords : blockingEntityAtOk(entities, c[1], c[2])
    /\ fault # "invalid: more than one blocking entity"

\* the Manhattan distance of two map locations
StepsApart(a, b) == Abs(a.x - b.x) + Abs(a.y - b.y)

\* an enemy phase has run in which a monster in view of the player stayed
\* where it was behind another monster that stands one step nearer
MonsterHeldUpByMonster ==
    /\ last.phases = 1
    /\ \E m \in DOMAIN entities : \E n \in DOMAIN entities :
          /\ m # n
          /\ \A i \in {m, n} :
                Alive(entities[i]) /\ OnMap(entities[i]) /\ "ai" \in DOMAIN entities[i]
          /\ m \in DOMAIN last.atPhase
          /\ entities[m].location = last.atPhase[m].location
          /\ Lit(lightMapOf(Game, entities[player].location), entities[m].location)
          /\ StepsApart(entities[m].location, entities[n].location) = 1
          /\ StepsApart(entities[n].location, entities[player].location) + 1
                = StepsApart(entities[m].location, entities[player].location)
          /\ entities[m].location.y = entities[n].location.y
          /\ entities[m].location.y = entities[player].location.y

\* the entity is a corpse: dead, of type corpse, without ai, not blocking
Corpse(e) ==
    /\ "dead" \in DOMAIN e /\ e.dead
    /\ e.type = "corpse"
    /\ "ai" \notin DOMAIN e
    /\ ~Truthy(e, "blocks")

\* the entity is what death makes of `was`: its corpse under the same id
CorpseOf(e, was) ==
    /\ Corpse(e)
    /\ e.id = was.id
    /\ e.name = was.name \o "'s corpse"

\* the input just handled took part of the hp of entity id
Damaged(id) == entities'[id].hp < entities[id].hp

\* the entity took part in no attack of the input just handled and in none
\* of its enemy phase
LeftAlone(id) ==
    /\ \A i \in DOMAIN last'.attacks :
          last'.attacks[i].attacker # id /\ last'.attacks[i].defender # id
    /\ \A i \in DOMAIN last'.processed : last'.processed[i] # id

Victims ==
    {id \in DOMAIN entities \cap DOMAIN entities' :
        Alive(entities[id]) /\ ~Alive(entities'[id])}

\* the sum of the xp awards of the types a set of entities had
RECURSIVE AwardsOf(_)
AwardsOf(ids) ==
    IF ids = {} THEN 0
    ELSE LET id == CHOOSE id \in ids : TRUE
         IN  BonusOf(entities[id], "xp_award") + AwardsOf(ids \ {id})

\* C25: each kill by the player (melee, lightning or fireball) of a victim
\* whose type defines an xp award adds exactly that award to the player's
\* xp, once per victim; a kill made by a monster, or of a victim whose type
\* defines no award, changes no entity's xp.
KillsPayTheirAwardOnce ==
    [][last'.action[1] # "restore-game"
       => /\ entities'[player].xp = entities[player].xp + AwardsOf(Victims \ {player})
          /\ \A id \in DOMAIN entities' \ {player} : "xp" \notin DOMAIN entities'[id]
          /\ \A id \in Victims \ {player} : HasProp(entities[id], "xp_award")
          /\ ~HasProp(entities[player], "xp_award")
      ]_vars

\* the player has killed a monster with a blow and been told of the award
MeleeKillPaid ==
    /\ \E i \in DOMAIN last.attacks :
          /\ last.attacks[i].attacker = player
          /\ last.attacks[i].died
          /\ Corpse(entities[last.attacks[i].defender])
    /\ \E k \in DOMAIN messages : messages[k][1][1] = "You gain experience points"
    /\ entities[player].xp > fighter.stats.xp

\* the threshold of level N written out: 200 N + 75 N (N + 1)
XpThreshold(N) == 275 * N + 75 * N * N

\* the player's xp does not exceed the threshold of the player's level
XpWithinLevel ==
    /\ entities[player].xp <= XpThreshold(entities[player].level)
    /\ \A N \in 1 .. 12 : xpForLevel(N) = XpThreshold(N)
    /\ xpForLevel(1) = 350 /\ xpForLevel(2) = 850 /\ xpForLevel(3) = 1500

\* C26: with xpForLevel(N) = 200 N + 150 N (N + 1) / 2, a grant of xp adds
\* the amount and raises the level until xp no longer exceeds
\* xpForLevel(level) and no further, so that player.xp <= xpForLevel(level)
\* in every state; levelling never lowers or resets xp (only the load of a
\* saved game brings back the xp and the level of the save).
LevelFollowsXp ==
    /\ []XpWithinLevel
    /\ [][/\ last'.action[1] # "restore-game"
             => /\ entities'[player].xp >= entities[player].xp
                /\ entities'[player].level >= entities[player].level
          /\ last'.action[1] = "gainXp"
             => /\ entities'[player].xp = entities[player].xp + last'.action[2]
                /\ \A N \in entities[player].level .. entities'[player].level - 1 :
                      entities'[player].xp > XpThreshold(N)
         ]_vars

\* one grant of 600 has taken the player at 340 xp from level 1 to level 3
TwoLevelsInOneGrant ==
    /\ last.action = <<"gainXp", 600>>
    /\ entities[player].xp = 940
    /\ entities[player].level = 3

\* the tile the move just handled was aimed at
MoveTarget ==
    <<entities[player].location.x + last'.action[2],
      entities[player].location.y + last'.action[3]>>

\* a non-move: the player stays, no attack, no enemy phase, no fault
NoMoveMade ==
    /\ entities'[player].location = entities[player].location
    /\ last'.attacks = <<>>
    /\ last'.phases = 0
    /\ fault' = NoFault

UnwalkableTileRejectsMove ==
    [][(/\ last'.action[1] = "move"
        /\ MoveTarget \in DOMAIN tileMap._values
        /\ ~tileMap._values[MoveTarget].walkable)
       => /\ NoMoveMade
          /\ entities' = entities
          /\ rngState' = rngState
      ]_vars

\* a move toward a coordinate without a tile record raises a TypeError
\* before anything is changed
AbsentTileFaultsMove ==
    [][(/\ last'.action[1] = "move"
        /\ MoveTarget \notin DOMAIN tileMap._values)
       => /\ fault' = "TypeError"
          /\ entities' = entities
          /\ last'.phases = 0
      ]_vars

\* the attacks the player made in the input just handled
PlayerAttacks == SelectSeq(last'.attacks, LAMBDA a : a.attacker = player)

\* C28: a player move onto a walkable tile occupied by a blocking entity
\* other than the player is resolved as one attack on that entity and
\* leaves the player where it was; a move onto a walkable tile with no other
\* blocking entity puts the player on that tile, makes no attack and takes
\* no hp from anyone (the enemy phase that follows either may cost the
\* player hp by the monsters' attacks).
MoveAttacksOrRelocates ==
    [][(/\ last'.action[1] = "move"
        /\ MoveTarget \in DOMAIN tileMap._values
        /\ tileMap._values[MoveTarget].walkable)
       => LET target == blockingEntityAt(entities, MoveTarget[1], MoveTarget[2])
          IN  /\ fault' = NoFault
              /\ last'.phases = 1
              /\ IF target # NULL /\ target # player
                 THEN /\ Len(PlayerAttacks) = 1
                      /\ PlayerAttacks[1].defender = target
                      /\ last'.attacks[1] = PlayerAttacks[1]
                      /\ entities'[player].location = entities[player].location
                 ELSE /\ PlayerAttacks = <<>>
                      /\ entities'[player].location
                            = [x |-> MoveTarget[1], y |-> MoveTarget[2]]
                      /\ \A id \in DOMAIN entities \ {player} :
                            "hp" \in DOMAIN entities[id]
                               => entities'[id].hp = entities[id].hp
                      /\ last'.attacks = <<>>
                            => entities'[player].hp = entities[player].hp
      ]_vars

\* the player has bumped into a monster next to it: an attack, and the
\* player on the same tile as before, the monster (or its corpse) on its own
BumpedAndStayed ==
    /\ last.action[1] = "move"
    /\ last.attacks # <<>>
    /\ last.attacks[1].attacker = player
    /\ entities[last.attacks[1].defender].location
          = [x |-> entities[player].location.x + last.action[2],
             y |-> entities[player].location.y + last.action[3]]
    /\ StepsApart(entities[player].location,
                  entities[last.attacks[1].defender].location) = 1

\* the input just handled tries to use item id: its letter in the inventory
\* overlay, or a click while its spell waits for a target
AttemptedUseOf(id) ==
    \/ /\ last'.action[1] = "inventory-do-use"
       /\ last'.action[2] = id
    \/ /\ last'.action[1] = "click"
       /\ overlay.targeting
       /\ overlay.callback.spell \in {"fireball", "confusion"}
       /\ overlay.callback.item = id

\* the use succeeds: a potion below full health, lightning with a target, a
\* fireball on a tile in view, confusion on a monster in view
SuccessfulUseOf(id) ==
    /\ AttemptedUseOf(id)
    /\ \/ /\ entities[id].type = "healing potion"
          /\ entities[player].hp # effective_max_hp(entities, entities[player])
       \/ /\ entities[id].type = "lightning scroll"
          /\ ~NoLightningTarget
       \/ /\ entities[id].type = "fireball scroll"
          /\ last'.action[1] = "click"
          /\ LitForPlayer(ClickAt)
       \/ /\ entities[id].type = "confusion scroll"
          /\ last'.action[1] = "click"
          /\ LitForPlayer(ClickAt)
          /\ ~NoConfusionTarget(ClickAt)

\* no inventory or equipment slot of any entity holds item id
InNoSlot(ents, id) ==
    \A owner \in DOMAIN ents :
        "inventory" \in DOMAIN ents[owner]
           => \A slot \in Slots :
                 ents[owner].inventory[slot] # id /\ ents[owner].equipment[slot] # id

LitFromPlayer(tiles, ents) ==
    fovCompute(tiles, <<ents[player].location.x, ents[player].location.y>>)

\* the step keeps the map: the same cells with the same floor and walls
SameMap ==
    /\ DOMAIN tileMap'._values = DOMAIN tileMap._values
    /\ \A c \in DOMAIN tileMap._values :
          tileMap'._values[c].walkable = tileMap._values[c].walkable

\* the tiles of a light map the step computes: centred on the player before
\* or after the step, or on the tile clicked as a target
LitInStep ==
    LitFromPlayer(tileMap._values, entities)
        \cup LitFromPlayer(tileMap'._values, entities')
        \cup (IF last'.action[1] = "click"
              THEN fovCompute(tileMap._values, <<ClickAt.x, ClickAt.y>>)
              ELSE {})

\* C30 as stated: on one map no operation, a load included, sets an
\* explored flag back to false
ExploredNeverReset ==
    [][(SameMap /\ ~Descent)
       => \A c \in DOMAIN tileMap._values :
             tileMap._values[c].explored => tileMap'._values[c].explored
      ]_vars

\* C30: on one map, every operation other than the load of a saved game
\* keeps each explored flag that is true, and sets a flag only on a tile
\* that a light map computed in the step gives visibility > 0; a descent
\* starts the new map with exactly the tiles lit from the player explored;
\* a load sets the flags to the saved ones plus the tiles lit from the
\* player.
ExploredGrowsByLightOnly ==
    [][IF last'.action = <<"restore-game", TRUE>>
       THEN \A c \in DOMAIN tileMap'._values :
               tileMap'._values[c].explored
                  <=> \/ storage.tileMap._values[c].explored
                      \/ c \in LitFromPlayer(tileMap'._values, entities')
       ELSE IF Descent
       THEN \A c \in DOMAIN tileMap'._values :
               tileMap'._values[c].explored
                  <=> c \in LitFromPlayer(tileMap'._values, entities')
       ELSE /\ SameMap
            /\ \A c \in DOMAIN tileMap._values :
                  /\ tileMap._values[c].explored => tileMap'._values[c].explored
                  /\ (tileMap'._values[c].explored /\ ~tileMap._values[c].explored)
                        => c \in LitInStep
      ]_vars

\* after a move a tile out of the player's sight is still explored
ExploredTileOutOfSight ==
    /\ last.action # NoAction
    /\ last.action[1] = "move"
    /\ \E c \in DOMAIN tileMap._values :
          /\ tileMap._values[c].explored
          /\ c \notin LitFromPlayer(tileMap._values, entities)

\* the store is keyed by id, and every id in it has been handed out
IdsIssued(ents, lastId) ==
    \A i \in DOMAIN ents : ents[i].id = i /\ 1 <= i /\ i <= lastId

\* the entities the step has created get ids above the last one handed out
CreatedAboveLastId ==
    \A i \in DOMAIN entities' \ DOMAIN entities : i > createEntity_id

\* C31 as stated, loads included: an id in use is never handed out again,
\* that is, the last id handed out never falls below an id of the store
IdsNeverReissued ==
    [][/\ IdsIssued(entities', createEntity_id')
       /\ createEntity_id' >= createEntity_id
       /\ \A i \in DOMAIN entities : i <= createEntity_id'
       /\ CreatedAboveLastId
      ]_vars

\* C31: the store is keyed by id and holds only ids handed out; in play
\* (creations and descents, a save included) the last id handed out never
\* goes down and every entity created gets an id above it, hence above every
\* id handed out before; the load of a saved game puts the counter back to
\* the saved one, with the saved store.
IdsUniqueAndIncreasingInPlay ==
    [][/\ IdsIssued(entities, createEntity_id)
       /\ IdsIssued(entities', createEntity_id')
       /\ IF last'.action = <<"restore-game", TRUE>>
          THEN /\ createEntity_id' = storage.nextEntityId
               /\ DOMAIN entities' = {storage.entities[k][1] : k \in DOMAIN storage.entities}
          ELSE /\ createEntity_id' >= createEntity_id
               /\ CreatedAboveLastId
               /\ (createEntity_id' > createEntity_id) => Descent
      ]_vars

\* a descent has created the entities of the new level
NewLevelEntitiesNumbered ==
    /\ last.action = <<"stairs-down">>
    /\ last.before.dungeonLevel < tileMap.dungeonLevel
    /\ \E i \in DOMAIN entities : i # player /\ OnMap(entities[i]) /\ i = createEntity_id

\* the most lines one input prints in these games
MaxPrinted == 40

\* the log after the step is the log before it, less `dropped` entries at
\* the oldest end, followed by `printed` new entries
LogShifted(printed) ==
    LET dropped == IF Len(messages) + printed > MAX_MESSAGE_LINES
                   THEN Len(messages) + printed - MAX_MESSAGE_LINES
                   ELSE 0
    IN  /\ Len(messages') = Len(messages) + printed - dropped
        /\ \A k \in 1 .. Len(messages) - dropped : messages'[k] = messages[k + dropped]

\* C32: the message log never holds more than 100 entries; what a handler
\* prints is appended at the end in order, and once the capacity is exceeded
\* entries leave from the oldest end only, the rest keeping their order (a
\* load puts the saved log back).  The stairs key prints exactly one line,
\* which is the last entry afterwards.
LogCappedOldestEvicted ==
    [][/\ Len(messages) <= MAX_MESSAGE_LINES
       /\ Len(messages') <= MAX_MESSAGE_LINES
       /\ IF last'.action = <<"restore-game", TRUE>>
          THEN messages' = storage.messages
          ELSE /\ \E printed \in 0 .. MaxPrinted : LogShifted(printed)
               /\ (last'.action = <<"stairs-down">> /\ ~StairsHere)
                     => /\ LogShifted(1)
                        /\ messages'[Len(messages')]
                              = <<<<"There are no stairs here.">>, "warning">>
               /\ Descent
                     => /\ LogShifted(1)
                        /\ messages'[Len(messages')][2] = "welcome"
      ]_vars

\* the log is full and its first lines, the welcome among them, have been
\* evicted while the line just printed is the last
LogFullWelcomeEvicted ==
    /\ Len(messages) = MAX_MESSAGE_LINES
    /\ last.action # NoAction
    /\ last.action[1] \in {"move", "inventory-do-use", "click"}
    /\ \A k \in DOMAIN messages : messages[k][2] # "welcome"
    /\ messages[Len(messages)][2] # "warning"

\* the entities a lightning bolt of the player can strike
LightningCandidates ==
    {i \in DOMAIN entities :
        LET e == entities[i]
        IN  /\ i # player
            /\ OnMap(e)
            /\ "hp" \in DOMAIN e /\ Alive(e)
            /\ LitForPlayer(e.location)
            /\ distanceSq(e.location, entities[player].location) <= 25}

\* i is the closest candidate, the first in store order among the closest
ClosestCandidate(i) ==
    /\ i \in LightningCandidates
    /\ \A k \in LightningCandidates :
          LET di == distanceSq(entities[i].location, entities[player].location)
              dk == distanceSq(entities[k].location, entities[player].location)
          IN  di < dk \/ (di = dk /\ i <= k)

\* the input uses a lightning scroll
LightningUsed ==
    /\ last'.action[1] = "inventory-do-use"
    /\ UsedType = "lightning scroll"

\* the player's hp changes by the attacks of the enemy phase only
PlayerHurtByAttacksOnly ==
    /\ \A k \in DOMAIN last'.attacks :
          /\ last'.attacks[k].attacker # player
          /\ last'.attacks[k].defender = player
    /\ entities'[player].hp
          = IF last'.attacks = <<>> THEN entities[player].hp
            ELSE last'.attacks[Len(last'.attacks)].after
    /\ last'.attacks # <<>> => last'.attacks[1].before = entities[player].hp

\* C33: a lightning scroll used with a candidate in range takes 40 hp from
\* exactly one entity other than the caster, the closest candidate (the
\* first in store order among equally close ones), and from no other; the
\* enemy phase that follows is the only other source of damage.  Without a
\* candidate nothing is damaged, the scroll stays in its slot and no enemy
\* phase runs.
LightningStrikesClosestOnly ==
    [][LightningUsed
       => IF LightningCandidates = {}
          THEN /\ entities' = entities
               /\ rngState' = rngState
               /\ last'.phases = 0
               /\ OneMessage("error")
          ELSE /\ last'.phases = 1
               /\ \A i \in DOMAIN entities \ {player} :
                     "hp" \in DOMAIN entities[i]
                        => /\ i \in DOMAIN entities'
                           /\ entities'[i].hp
                                 = entities[i].hp - (IF ClosestCandidate(i) THEN 40 ELSE 0)
               /\ PlayerHurtByAttacksOnly
               /\ \E i \in LightningCandidates :
                     /\ ClosestCandidate(i)
                     /\ NewMessages[1] = <<<<"A lighting bolt strikes", entities[i].name, 40>>,
                                           "player-attack">>
      ]_vars

\* the bolt has struck with a second monster within range
StruckWithAChoice ==
    /\ last.action # NoAction
    /\ last.action[1] = "inventory-do-use"
    /\ \E k \in DOMAIN messages : messages[k][1][1] = "A lighting bolt strikes"
    /\ \E i \in DOMAIN entities :
          /\ i # player /\ "ai" \in DOMAIN entities[i] /\ OnMap(entities[i])
          /\ distanceSq(entities[i].location, entities[player].location) <= 25
          /\ Lit(LitFromPlayer(tileMap._values, entities), entities[i].location)

Manhattan(a, b) == Abs(a.x - b.x) + Abs(a.y - b.y)

\* the move_to_player monsters that an enemy phase found in the player's light
LitAtPhase ==
    {i \in DOMAIN last.atPhase :
        LET e == last.atPhase[i]
        IN  /\ "ai" \in DOMAIN e /\ e.ai.behavior = "move_to_player"
            /\ Alive(e) /\ OnMap(e)
            /\ Lit(fovCompute(tileMap._values,
                              <<last.atPhase[player].location.x,
                                last.atPhase[player].location.y>>),
                   e.location)}

AttacksBy(i) == SelectSeq(last.attacks, LAMBDA made : made.attacker = i)

\* the tiles one unit step from `from` along an axis whose offset to `to` is
\* not zero
StepsToward(from, to) ==
    (IF to.x # from.x THEN {[x |-> from.x + sign(to.x - from.x), y |-> from.y]} ELSE {})
        \cup (IF to.y # from.y
              THEN {[x |-> from.x, y |-> from.y + sign(to.y - from.y)]} ELSE {})

\* tile t is closed to monster i in the phase: not walkable, or held by a
\* blocker other than i when the phase starts or when it ends
ClosedTo(i, t) ==
    \/ ~tileMap._values[<<t.x, t.y>>].walkable
    \/ blockingEntityAt(last.atPhase, t.x, t.y) \notin {NULL, i}
    \/ blockingEntityAt(entities, t.x, t.y) \notin {NULL, i}

\* what a lit monster i away from the player does: no attack, and either
\* one step toward the player onto a walkable tile or none, a step being
\* closed to it
ApproachOf(i) ==
    LET a == last.atPhase[i].location
        b == entities[i].location
        p == last.atPhase[player].location
    IN  /\ AttacksBy(i) = <<>>
        /\ \/ /\ b \in StepsToward(a, p)
              /\ tileMap._values[<<b.x, b.y>>].walkable
              /\ Manhattan(b, p) = Manhattan(a, p) - 1
           \/ /\ b = a
              /\ \E t \in StepsToward(a, p) : ClosedTo(i, t)

\* what a lit monster i next to the player does: one attack on the player,
\* from where it stands
StrikeOf(i) ==
    /\ Len(AttacksBy(i)) = 1
    /\ AttacksBy(i)[1].defender = player
    /\ entities[i].location = last.atPhase[i].location

\* C34 as stated: in an enemy phase every lit move_to_player monster whose
\* step leads to the player's tile attacks without moving, and every other
\* one takes one step toward the player or stays put before a closed tile
EnemyStepAsStated ==
    (last.phases = 1 /\ fault = NoFault)
        => \A i \in LitAtPhase :
              IF Manhattan(last.atPhase[i].location, last.atPhase[player].location) = 1
              THEN StrikeOf(i)
              ELSE ApproachOf(i)

\* the monster whose attack killed the player in the phase (0: none did)
Killer ==
    LET fatal == SelectSeq(last.attacks, LAMBDA made : made.defender = player /\ made.died)
    IN  IF fatal = <<>> THEN 0 ELSE fatal[1].attacker

\* the part of C34 that the code keeps: in an enemy phase a lit
\* move_to_player monster next to the living
\* player attacks once without moving; any other one takes one step toward
\* the player, along an axis whose offset is not zero, onto a walkable tile,
\* or stays put before a closed tile.  A monster attacks only the player and
\* only from an orthogonally adjacent tile, and every relocation brings it
\* one tile closer.  Once an attack of the phase has killed the player, the
\* monsters whose turn comes later find the player's tile free: they step
\* onto it (or stay when another monster took it) and do not attack.
EnemyStepTowardLivingPlayer ==
    (last.phases = 1 /\ fault = NoFault)
        => LET p == last.atPhase[player].location
           IN  /\ \A i \in LitAtPhase :
                     LET a == last.atPhase[i].location
                         b == entities[i].location
                     IN  IF Manhattan(a, p) # 1 THEN ApproachOf(i)
                         ELSE IF Alive(entities[player]) \/ (Killer # 0 /\ i <= Killer)
                         THEN StrikeOf(i)
                         ELSE /\ AttacksBy(i) = <<>>
                              /\ b = p \/ (b = a /\ ClosedTo(i, p))
               /\ \A k \in DOMAIN last.attacks :
                     last.attacks[k].attacker # player
                        => /\ last.attacks[k].attacker \in LitAtPhase
                           /\ last.attacks[k].defender = player
                           /\ Manhattan(last.atPhase[last.attacks[k].attacker].location, p) = 1

\* the cases of runAction's switch
HandledTokens ==
    {"move", "pickup", "stairs-down", "inventory-open-use", "inventory-close-use",
     "inventory-open-drop", "inventory-close-drop", "character-open",
     "character-close", "targeting-cancel", "upgrade", "inventory-do-use",
     "inventory-do-drop", "restore-game", "save-game", "toggle-debug"}

\* C35: key and click inputs never reach a hard failure: no handler has
\* thrown, every token the current key handler returns for a key is a case
\* of runAction (an upgrade token naming hp, str or def, a use or drop token
\* naming an item of the store), and every ai behavior in the store is
\* move_to_player or confused.
NoHardFailure ==
    /\ fault = NoFault
    /\ \A key \in Keys :
          LET action == keyAction(key)
          IN  action # NoAction
                 => /\ action[1] \in HandledTokens
                    /\ action[1] = "upgrade" => action[2] \in Stats
                    /\ action[1] \in {"inventory-do-use", "inventory-do-drop"}
                          => /\ action[2] \in DOMAIN entities
                             /\ Truthy(entities[action[2]], "item")
    /\ \A i \in DOMAIN entities :
          "ai" \in DOMAIN entities[i]
             => entities[i].ai.behavior \in {"move_to_player", "confused"}

\* a click has cast confusion and the enemy phase after it has run with the
\* confused monster in the store: the checks of the handlers passed
ChecksPassedInPlay ==
    /\ fault = NoFault
    /\ last.action # NoAction
    /\ last.action[1] = "click"
    /\ last.phases = 1
    /\ \E i \in DOMAIN entities :
          /\ "ai" \in DOMAIN entities[i]
          /\ entities[i].ai.behavior = "confused"
          /\ i \in {last.processed[k] : k \in DOMAIN last.processed}

\* C36: the player's equipment slots 0 (main hand) and 1 (off hand) each
\* hold one item, of a type whose equipment_slot is that slot and located
\* there; every other equipment slot is empty and no other item is located
\* in an equipment slot; hence no equip has hit swapEquipment's test of an
\* empty equipment slot.
HandsAlwaysHoldTheirItems ==
    /\ \A slot \in Slots :
          LET id == entities[player].equipment[slot]
          IN  IF slot \in {EQUIP_MAIN_HAND, EQUIP_OFF_HAND}
              THEN /\ id # NULL
                   /\ id \in DOMAIN entities
                   /\ HasProp(entities[id], "equipment_slot")
                   /\ PropOf(entities[id], "equipment_slot") = slot
                   /\ entities[id].location = [equipped_by |-> player, slot |-> slot]
              ELSE id = NULL
    /\ \A i \in DOMAIN entities :
          "equipped_by" \in DOMAIN entities[i].location
             => /\ entities[i].location.equipped_by = player
                /\ entities[player].equipment[entities[i].location.slot] = i
    /\ fault # "invalid: swap equipment must be with non-empty equipment slot"

\* the item picked in the inventory overlay is now in the player's hand
EquippedByKey ==
    /\ last.action # NoAction
    /\ last.action[1] = "inventory-do-use"
    /\ fault = NoFault
    /\ "equipped_by" \in DOMAIN entities[last.action[2]].location
    /\ \E slot \in Slots :
          /\ entities[player].inventory[slot] # NULL
          /\ HasProp(entities[entities[player].inventory[slot]], "equipment_slot")

\* the monsters that an enemy phase found confused
ConfusedAtPhase ==
    {i \in DOMAIN last.atPhase :
        LET e == last.atPhase[i]
        IN  "ai" \in DOMAIN e /\ e.ai.behavior = "confused" /\ Alive(e) /\ OnMap(e)}

\* C37: in an enemy phase a confused monster makes no attack (no entity's
\* hp is reduced by it, the player's included when it stands next to the
\* player); it stays where it is or relocates by at most one step in x and
\* in y to a walkable tile on which it is the only blocker; in the phase in
\* which its confusion expires it does not move and is back to
\* move_to_player, otherwise its counter has gone down by one.
ConfusedNeverAttack ==
    (last.phases = 1 /\ fault = NoFault)
        => /\ \A i \in ConfusedAtPhase :
                 LET a == last.atPhase[i].location
                     b == entities[i].location
                 IN  /\ AttacksBy(i) = <<>>
                     /\ \/ b = a
                        \/ /\ Abs(b.x - a.x) <= 1 /\ Abs(b.y - a.y) <= 1
                           /\ tileMap._values[<<b.x, b.y>>].walkable
                           /\ blockingEntityAt(entities, b.x, b.y) = i
                           /\ blockingEntityAtOk(entities, b.x, b.y)
                     /\ IF last.atPhase[i].ai.turns = 1
                        THEN b = a /\ entities[i].ai = [behavior |-> "move_to_player"]
                        ELSE entities[i].ai = [behavior |-> "confused",
                                               turns |-> last.atPhase[i].ai.turns - 1]
           /\ \A i \in DOMAIN entities :
                 ("hp" \in DOMAIN entities[i] /\ i \in DOMAIN last.atPhase
                     /\ entities[i].hp < last.atPhase[i].hp)
                    => \E k \in DOMAIN last.attacks :
                          /\ last.attacks[k].defender = i
                          /\ last.attacks[k].attacker \notin ConfusedAtPhase

\* a confused monster next to the player has stumbled to another tile
\* instead of attacking
ConfusedNextToPlayerStumbled ==
    /\ last.phases = 1
    /\ fault = NoFault
    /\ Alive(entities[player])
    /\ \E i \in ConfusedAtPhase :
          /\ Manhattan(last.atPhase[i].location, last.atPhase[player].location) = 1
          /\ entities[i].location # last.atPhase[i].location
          /\ entities[player].hp = last.atPhase[player].hp

\* C38 as stated: once the player is dead, no input other than restore-game
\* changes an entity, a tile or the RNG state
DeadPlayerIsLeftAlone ==
    [][(~Alive(entities[player]) /\ last'.action[1] # "restore-game")
        => /\ entities' = entities
           /\ tileMap' = tileMap
           /\ rngState' = rngState
      ]_vars

\* the part of C38 that the code keeps: with the player dead and no upgrade
\* choice pending, no input other than restore-game changes an entity, a
\* tile or the RNG state; a pending upgrade choice changes the player's
\* base stats and hp and nothing else
DeadPlayerChangesOnlyByUpgrade ==
    [][(~Alive(entities[player]) /\ last'.action[1] # "restore-game")
        => /\ tileMap' = tileMap
           /\ rngState' = rngState
           /\ last'.phases = 0
           /\ IF last'.action[1] = "upgrade"
              THEN /\ overlay.upgrade
                   /\ entities' = [entities EXCEPT ![player] = entities'[player]]
                   /\ entities'[player] # entities[player]
              ELSE entities' = entities
      ]_vars

\* C39: every entity that has hp has at most its effective maximum, and at
\* least 1 unless it is dead.
HpWithinBounds ==
    \A i \in DOMAIN entities :
        "hp" \in DOMAIN entities[i]
           => /\ entities[i].hp <= effective_max_hp(entities, entities[i])
              /\ Alive(entities[i]) => entities[i].hp >= 1

\* a potion has healed the player up to the maximum, by less than its full
\* amount
HealedToTheBrim ==
    /\ last.action # NoAction
    /\ last.action[1] = "inventory-do-use"
    /\ entities[last.action[2]].type = "healing potion"
    /\ entities[last.action[2]].location = NOWHERE
    /\ last.before.hp > effective_max_hp(entities, entities[player]) - 40
    /\ last.attacks = <<>>
    /\ entities[player].hp = effective_max_hp(entities, entities[player])

\* the entity stands on a tile of the current map, and the tile is walkable
StandsOnFloor(tiles, e) ==
    /\ <<e.location.x, e.location.y>> \in DOMAIN tiles._values
    /\ tiles._values[<<e.location.x, e.location.y>>].walkable

\* C40: every entity whose location is a map coordinate other than (-1,-1)
\* stands on a tile that exists in the current map and is walkable.
MapEntitiesStandOnFloor ==
    \A i \in DOMAIN entities :
        OnMap(entities[i]) /\ entities[i].location # NOWHERE
           => StandsOnFloor(tileMap, entities[i])
\* a load has put the player, a monster and the stairs of another level back
\* on that level's map, replacing the map of the level played before the load
LoadedOntoEarlierMap ==
    /\ last.action = <<"restore-game", TRUE>>
    /\ last.before.dungeonLevel # tileMap.dungeonLevel
    /\ \E i \in DOMAIN entities :
          OnMap(entities[i]) /\ entities[i].type = "stairs"
    /\ \E i \in DOMAIN entities :
          OnMap(entities[i]) /\ entities[i].location # NOWHERE /\ "ai" \in DOMAIN entities[i]

====
